---- MODULE Spec2Model ----
(***************************************************************************)
(* A model of bot.py, the checklist bot: the user conversation (password,  *)
(* name, task walk, report), the admin conversation (catalog editing,      *)
(* assignments, users) and the stores both work on.                        *)
(*                                                                         *)
(* Every handler of bot.py is an operator from the program state (a record *)
(* with one field per global of bot.py) to the program state after the     *)
(* handler returned; an action applies one handler to the current state.   *)
(* A Python list is an object: the catalog and the sessions hold           *)
(* references into the heap `lists`, as the code does.                     *)
(***************************************************************************)
EXTENDS Integers, Sequences, FiniteSets, TLC

(***************************************************************************)
(* Bounds of the model.                                                    *)
(***************************************************************************)
\* the longest task list the model lets a checklist grow to
MaxTasks == 2
\* the last second of the wall clock that names the report files
MaxClock == 1

(***************************************************************************)
(* Identities, names and texts.                                            *)
(***************************************************************************)
Users == {1, 2, 3, 4}
\* ADMIN_IDS, the static allowlist read from the environment (a list)
ADMIN_IDS == <<1, 2>>
StaticAdmins == {ADMIN_IDS[i] : i \in DOMAIN ADMIN_IDS}

\* str(user_id), the key of the JSON-backed stores; int(uid) is its inverse
Str(u) == CASE u = 1 -> "1" [] u = 2 -> "2" [] u = 3 -> "3" [] u = 4 -> "4"
StrIds == {Str(u) : u \in Users}
ToInt(k) == CHOOSE u \in Users : Str(u) = k

\* The absent value: Python's None, or a key a dict does not hold.
None == "<None>"
NoIndex == -1
NoRef == 0
NoUser == 0
\* Python truthiness of an optional string: None and "" are false.
Truthy(x) == x # None /\ x # ""

RoleNames == {"Bartender", "Cashier"}
ChecklistNames == {"Opening", "Closing", "Closing:Bar"}
TaskTexts == {"wipe", "lock"}
DisplayNames == {"Alice"}
Passwords == {"default_password", "Xk3!generated"}
Outcomes == {"Done", "Not Done"}

\* data.split(":")[1] applied to "<command>:<arg>": the text between the first
\* and the second colon, so an argument that holds a colon is cut at it.
Field1(arg) == IF arg = "Closing:Bar" THEN "Closing" ELSE arg

(***************************************************************************)
(* dict helpers                                                            *)
(***************************************************************************)
Put(f, k, v) == [x \in (DOMAIN f) \cup {k} |-> IF x = k THEN v ELSE f[x]]
Del(f, k) == [x \in (DOMAIN f) \ {k} |-> f[x]]
Empty == [x \in {} |-> x]

(***************************************************************************)
(* The program state.                                                      *)
(***************************************************************************)
VARIABLES
    checklists,             \* role -> checklist name -> reference to a task list
    lists,                  \* the heap: reference -> the list's tasks
    user_assignments,       \* str(uid) -> [role, checklist]
    user_data,              \* str(uid) -> [name, is_admin]
    notification_settings,  \* [enabled, reminder_time, users]
    user_sessions,          \* uid -> session
    fsm_state,              \* uid -> the admin state MemoryStorage holds, or None
    fsm_data,               \* uid -> the context data MemoryStorage holds
    BOT_PASSWORD,           \* the shared password in memory
    disk,                   \* the four JSON documents as last saved
    reports,                \* the reports directory: <<second, uid>> -> report
    now,                    \* the wall clock, in seconds
    prompted,               \* the users whose chat holds a task prompt (its buttons)
    keyboard,               \* uid -> the checklist buttons of the assignment menu in the chat
    confirmations,          \* uid -> the "Yes, delete" buttons of the prompts in the chat
    outbox,                 \* the messages sent while handling the last event
    last,                   \* the last event handled: handler, user, data, exception
    old_password,           \* history: the password the last generation replaced
    walk_start              \* history: uid -> the task list when the walk began

vars == <<checklists, lists, user_assignments, user_data, notification_settings,
          user_sessions, fsm_state, fsm_data, BOT_PASSWORD, disk, reports, now,
          prompted, keyboard, confirmations, outbox, last, old_password, walk_start>>

\* The program state as one record, the argument and the result of a handler.
Cur ==
    [checklists |-> checklists, lists |-> lists,
     user_assignments |-> user_assignments, user_data |-> user_data,
     notification_settings |-> notification_settings,
     user_sessions |-> user_sessions, fsm_state |-> fsm_state,
     fsm_data |-> fsm_data, BOT_PASSWORD |-> BOT_PASSWORD, disk |-> disk,
     reports |-> reports, now |-> now, prompted |-> prompted, keyboard |-> keyboard,
     confirmations |-> confirmations, old_password |-> old_password,
     outbox |-> <<>>, exc |-> FALSE, walk_start |-> walk_start]

(***************************************************************************)
(* Helpers over the state record.                                          *)
(***************************************************************************)
\* bot.send_message / message.answer: one message leaves for `to`
Send(s, to, msg) == [s EXCEPT !.outbox = Append(@, [to |-> to, msg |-> msg])]

\* An exception reaches the handler's `except Exception`: what was assigned
\* before it stays, the handler logs and sends its generic failure notice.
Raise(s, to, msg) == [Send(s, to, msg) EXCEPT !.exc = TRUE]

\* role in checklists and cl_name in checklists[role]
HasChecklist(s, role, cl) ==
    role \in DOMAIN s.checklists /\ cl \in DOMAIN s.checklists[role]

\* checklists[role][cl_name], the tasks of the list object it refers to
TasksOf(s, role, cl) == s.lists[s.checklists[role][cl]]

\* is_admin(user_id)
is_admin_by_flag(s, u) == Str(u) \in DOMAIN s.user_data /\ s.user_data[Str(u)].is_admin
is_admin(s, u) ==
    \/ u \in StaticAdmins
    \/ Str(u) \in DOMAIN s.user_data /\ s.user_data[Str(u)].is_admin

\* json.dump(checklists): the catalog with every list written out
Deref(s) ==
    [r \in DOMAIN s.checklists |->
        [c \in DOMAIN s.checklists[r] |-> s.lists[s.checklists[r][c]]]]

save_checklists_stale(s) == s
save_checklists(s) == [s EXCEPT !.disk.checklists = Deref(s)]
save_user_assignments(s) == [s EXCEPT !.disk.user_assignments = s.user_assignments]
save_user_data(s) == [s EXCEPT !.disk.user_data = s.user_data]
save_notification_settings(s) ==
    [s EXCEPT !.disk.notification_settings = s.notification_settings]

\* The list objects something still refers to; the others are garbage, which
\* no code can observe.
LiveRefs(s) ==
    UNION {{s.checklists[r][c] : c \in DOMAIN s.checklists[r]} : r \in DOMAIN s.checklists}
        \cup ({s.user_sessions[u].tasks : u \in DOMAIN s.user_sessions} \ {NoRef})
Collect(s) == [s EXCEPT !.lists = [i \in (DOMAIN @) \cap LiveRefs(s) |-> @[i]]]
\* A new list object: the first reference not in use.
NewRef(s) == CHOOSE i \in 1..(Cardinality(DOMAIN s.lists) + 1) : i \notin DOMAIN s.lists

(***************************************************************************)
(* The user flow.                                                          *)
(***************************************************************************)
\* user_sessions[user_id] = {"step": "name"}; the keys a session does not hold
\* yet have the absent value
NewSession ==
    [step |-> "name", name |-> None, role |-> None, checklist |-> None,
     tasks |-> NoRef, current_task |-> 0, results |-> <<>>]

InTaskStep(s, u) == u \in DOMAIN s.user_sessions /\ s.user_sessions[u].step = "task"

\* session["tasks"], read through the reference the session holds
SessionTasks(s, u) == s.lists[s.user_sessions[u].tasks]

send_task(s, u) ==
    IF ~InTaskStep(s, u)
    THEN Send(s, u, "session_expired")
    ELSE IF s.user_sessions[u].current_task < Len(SessionTasks(s, u))
         THEN [Send(s, u, "task_prompt") EXCEPT !.prompted = @ \cup {u}]
         \* IndexError at session["tasks"][session["current_task"]], caught in send_task
         ELSE Send(s, u, "error_loading_tasks")

\* save_report: open(filename, 'w') on report_<second>_<user_id>.json
save_report(s, u, user_name, role, cl_name, results) ==
    [s EXCEPT !.reports = Put(@, <<s.now, u>>,
        [user_id |-> u, user_name |-> user_name, role |-> role,
         checklist |-> cl_name, results |-> results])]

\* The static administrators the first loop of finish_checklist reaches: it
\* stops at the first send that fails.
RECURSIVE StaticReached(_, _)
StaticReached(i, down) ==
    IF i > Len(ADMIN_IDS) THEN {}
    ELSE IF ADMIN_IDS[i] \in down THEN {}
    ELSE {ADMIN_IDS[i]} \cup StaticReached(i + 1, down)

\* The administrators of user_data the second loop sends to: each in its own try.
DynamicAdmins(s) ==
    {a \in Users : /\ Str(a) \in DOMAIN s.user_data
                   /\ s.user_data[Str(a)].is_admin
                   /\ a \notin StaticAdmins}

\* Who receives the report when the sends to `down` fail.
ReportReceivers(s, down) ==
    IF StaticAdmins \cap down # {}
    THEN StaticReached(1, down)
    ELSE StaticAdmins \cup (DynamicAdmins(s) \ down)

RECURSIVE SendAll(_, _, _)
SendAll(s, tos, msg) ==
    IF tos = {} THEN s
    ELSE LET to == CHOOSE x \in tos : \A y \in tos : x <= y
         IN SendAll(Send(s, to, msg), tos \ {to}, msg)

\* finish_checklist without the try around the sends: a failed send ends it
\* in the outer except, before the cleanup of the session.
finish_checklist_aborting(s, u, down) ==
    LET session == s.user_sessions[u]
        s1 == save_report(s, u, session.name, session.role, session.checklist,
                          session.results)
        s2 == Send(s1, u, "completed")
        s3 == SendAll(s2, ReportReceivers(s2, down), "report")
    IN  IF down = {}
        THEN Collect([s3 EXCEPT !.user_sessions = Del(@, u)])
        ELSE Send(s3, u, "error_completing_checklist")
\* finish_checklist(message, user_id)
finish_checklist(s, u, down) ==
    LET session == s.user_sessions[u]
        s1 == save_report(s, u, session.name, session.role, session.checklist,
                          session.results)
        s2 == Send(s1, u, "completed")
        s3 == SendAll(s2, ReportReceivers(s2, down), "report")
        s4 == IF StaticAdmins \cap down # {}
              THEN Send(s3, u, "failed_to_send_report")
              ELSE s3
    IN  Collect([s4 EXCEPT !.user_sessions = Del(@, u)])

\* callback_handler, the "task:<result>" branch and the else branch
\* The press of a user who has no session in the task step: without the test,
\* user_sessions[user_id] or session["results"] is a KeyError.
ExpiredUnguarded(s, u) == Raise(s, u, "processing_error")
Expired(s, u) == Send(s, u, "session_expired")

callback_handler(s, u, cmd, arg, down) ==
    IF cmd = "task"
    THEN IF ~InTaskStep(s, u)
         THEN Expired(s, u)
         ELSE LET session == s.user_sessions[u]
                  tasks == SessionTasks(s, u)
                  i == session.current_task
              IN  IF i >= Len(tasks)
                  \* IndexError at session["tasks"][session["current_task"]]
                  THEN Raise(s, u, "processing_error")
                  ELSE LET s1 == [s EXCEPT
                                   !.user_sessions[u].results =
                                       Append(@, <<tasks[i + 1], Field1(arg)>>),
                                   !.user_sessions[u].current_task = @ + 1]
                       IN  IF i + 1 < Len(tasks)
                           THEN send_task(s1, u)
                           ELSE finish_checklist(s1, u, down)
    ELSE Send(s, u, "unknown_command")

\* start_handler
start_handler_resetting_all(s, u) ==
    LET s1 == Collect([s EXCEPT !.user_sessions = Empty])
    IN  IF is_admin(s1, u) THEN Send(s1, u, "welcome_admin") ELSE Send(s1, u, "welcome")
start_handler(s, u) ==
    LET s1 == Collect([s EXCEPT !.user_sessions = Del(@, u)])
    IN  IF is_admin(s1, u) THEN Send(s1, u, "welcome_admin") ELSE Send(s1, u, "welcome")

\* `text == BOT_PASSWORD`
PasswordWithGrace(s, text) == text \in {s.BOT_PASSWORD, s.old_password}
PasswordMatches(s, text) == text = s.BOT_PASSWORD

\* The branch of a password that does not match.
RejectButOpen(s, u) ==
    Send([s EXCEPT !.user_sessions = Put(@, u, NewSession)], u, "incorrect_password")
Reject(s, u) == Send(s, u, "incorrect_password")

\* The else of `role in checklists and cl_name in checklists[role]`
ChecklistGoneUnguarded(s, u) == Raise(s, u, "message_processing_error")
ChecklistGone(s, u) == Send(s, u, "assigned_checklist_unavailable")

\* message_handler from "# Normal user flow" on
user_flow(s, u, text) ==
    IF u \notin DOMAIN s.user_sessions
    THEN IF PasswordMatches(s, text)
         THEN Send([s EXCEPT !.user_sessions = Put(@, u, NewSession)], u, "password_accepted")
         ELSE Reject(s, u)
    ELSE IF s.user_sessions[u].step = "name"
    THEN LET k == Str(u)
             s1 == [s EXCEPT !.user_sessions[u].name = text]
             s2 == save_user_data(
                     IF k \notin DOMAIN s1.user_data
                     THEN [s1 EXCEPT !.user_data = Put(@, k, [name |-> text, is_admin |-> FALSE])]
                     ELSE [s1 EXCEPT !.user_data[k].name = text])
         IN  IF k \in DOMAIN s2.user_assignments
             THEN LET role == s2.user_assignments[k].role
                      cl_name == s2.user_assignments[k].checklist
                  IN  IF HasChecklist(s2, role, cl_name)
                      THEN send_task(
                             [s2 EXCEPT
                                !.user_sessions[u] =
                                    [@ EXCEPT !.role = role, !.checklist = cl_name,
                                              !.tasks = s2.checklists[role][cl_name],
                                              !.current_task = 0, !.results = <<>>,
                                              !.step = "task"],
                                !.walk_start[u] = TasksOf(s2, role, cl_name)], u)
                      ELSE ChecklistGone(s2, u)
             ELSE Send(s2, u, "no_assigned_checklist")
    ELSE s

(***************************************************************************)
(* The admin flow.                                                         *)
(***************************************************************************)
\* The context data of a conversation before any update_data.
NoData ==
    [role |-> None, checklist |-> None, task_index |-> NoIndex,
     delete_cl_name |-> None, assign_user_id |-> NoUser, assign_role |-> None]

\* state.set_state(x)
set_state(s, u, x) == [s EXCEPT !.fsm_state[u] = x]

\* show_checklist_editor(message, state, role, cl_name)
show_checklist_editor(s, u, role, cl_name) ==
    IF ~HasChecklist(s, role, cl_name)
    THEN Send(s, u, "checklist_not_found")
    ELSE Send([s EXCEPT !.fsm_data[u].role = role, !.fsm_data[u].checklist = cl_name],
              u, "editor")

\* A cascade that matches the checklist name alone, whatever the role.
RenameAssignmentsAnyRole(ua, role, old_name, new_name) ==
    [k \in DOMAIN ua |->
        IF ua[k].checklist = old_name
        THEN [ua[k] EXCEPT !.checklist = new_name]
        ELSE ua[k]]

\* for uid, assignment in user_assignments.items(): ... assignment["checklist"] = new_name
RenameAssignments(ua, role, old_name, new_name) ==
    [k \in DOMAIN ua |->
        IF ua[k].role = role /\ ua[k].checklist = old_name
        THEN [ua[k] EXCEPT !.checklist = new_name]
        ELSE ua[k]]

\* A cascade that matches the checklist name alone, whatever the role.
RemoveAssignmentsAnyRole(ua, role, cl_name) ==
    [k \in {x \in DOMAIN ua : ua[x].checklist # cl_name} |-> ua[k]]

\* for uid, assignment in list(user_assignments.items()): ... del user_assignments[uid]
RemoveAssignments(ua, role, cl_name) ==
    [k \in {x \in DOMAIN ua : ~(ua[x].role = role /\ ua[x].checklist = cl_name)} |-> ua[k]]

\* checklists[role][new_name] = checklists[role].pop(old_name)
RenameKey(cl, old_name, new_name) == Put(Del(cl, old_name), new_name, cl[old_name])

\* list.pop(i), i counted from 0
PopLast(q, i) == SubSeq(q, 1, Len(q) - 1)
PopAt(q, i) == SubSeq(q, 1, i) \o SubSeq(q, i + 2, Len(q))

\* checklists[role][cl_name].append(text)
PrependTask(tasks, text) == <<text>> \o tasks
AppendTask(tasks, text) == Append(tasks, text)

\* message_handler, the branches of "if current_state:"; `handled` tells
\* whether one of them returned
admin_text(s, u, text) ==
    LET st == s.fsm_state[u]
        data == s.fsm_data[u]
        role == data.role
        cl_name == data.checklist
        i == data.task_index
    IN
    IF st = "ADD_TASK" THEN
        IF Truthy(role) /\ Truthy(cl_name)
        THEN IF ~HasChecklist(s, role, cl_name)
             THEN Raise(s, u, "error_processing_message")          \* KeyError
             ELSE LET s1 == [s EXCEPT !.lists[s.checklists[role][cl_name]] = AppendTask(@, text)]
                      s2 == Send(save_checklists(s1), u, "task_added")
                  IN  set_state(show_checklist_editor(s2, u, role, cl_name), u, None)
        ELSE set_state(Send(s, u, "role_or_checklist_not_found"), u, None)
    ELSE IF st = "EDIT_TASK" THEN
        IF Truthy(role) /\ Truthy(cl_name) /\ i # NoIndex
        THEN IF ~HasChecklist(s, role, cl_name)
             THEN Raise(s, u, "error_processing_message")          \* KeyError
             ELSE IF 0 <= i /\ i < Len(TasksOf(s, role, cl_name))
             THEN LET s1 == [s EXCEPT !.lists[s.checklists[role][cl_name]][i + 1] = text]
                      s2 == Send(save_checklists(s1), u, "task_updated")
                  IN  set_state(show_checklist_editor(s2, u, role, cl_name), u, None)
             ELSE set_state(Send(s, u, "task_index_out_of_range"), u, None)
        ELSE set_state(Send(s, u, "missing_data_for_task_update"), u, None)
    ELSE IF st = "RENAME_CHECKLIST" THEN
        IF Truthy(role) /\ Truthy(cl_name)
        THEN IF role \notin DOMAIN s.checklists
             THEN Raise(s, u, "error_processing_message")          \* KeyError
             ELSE IF cl_name \in DOMAIN s.checklists[role]
             THEN LET s1 == save_checklists(Collect(
                              [s EXCEPT !.checklists[role] = RenameKey(@, cl_name, text)]))
                      s2 == save_user_assignments(
                              [s1 EXCEPT !.user_assignments =
                                  RenameAssignments(@, role, cl_name, text)])
                      s3 == Send(s2, u, "checklist_renamed")
                  IN  set_state(show_checklist_editor(s3, u, role, text), u, None)
             ELSE set_state(Send(s, u, "checklist_not_found"), u, None)
        ELSE set_state(Send(s, u, "role_or_checklist_name_missing"), u, None)
    ELSE IF st = "NEW_CHECKLIST" THEN
        IF Truthy(role)
        THEN IF role \notin DOMAIN s.checklists
             THEN Raise(s, u, "error_processing_message")          \* KeyError
             ELSE IF text \notin DOMAIN s.checklists[role]
             THEN LET ref == NewRef(s)
                      s1 == [s EXCEPT !.lists = Put(@, ref, <<>>),
                                      !.checklists[role] = Put(@, text, ref)]
                      s2 == Send(save_checklists(s1), u, "checklist_created")
                  IN  set_state(show_checklist_editor(s2, u, role, text), u, None)
             ELSE set_state(Send(s, u, "checklist_already_exists"), u, None)
        ELSE set_state(Send(s, u, "role_not_found"), u, None)
    ELSE IF st = "ADD_USER_BY_ID" THEN
        IF text \in StrIds                                          \* int(text) succeeds
        THEN IF Str(ToInt(text)) \in DOMAIN s.user_data
             THEN set_state(Send(s, u, "user_already_exists"), u, None)
             ELSE LET s1 == [s EXCEPT !.user_data =
                                 Put(@, Str(ToInt(text)), [name |-> "User", is_admin |-> FALSE])]
                  IN  set_state(Send(save_user_data(s1), u, "user_added"), u, None)
        ELSE set_state(Send(s, u, "invalid_user_id"), u, None)      \* ValueError
    ELSE \* SET_NOTIFICATION_TIME
        IF text \in {"09:00", "18:30"}                               \* strptime succeeds
        THEN LET s1 == [s EXCEPT !.notification_settings.reminder_time = text]
             IN  set_state(Send(save_notification_settings(s1), u, "reminder_time_set"), u, None)
        ELSE set_state(Send(s, u, "invalid_time_format"), u, None)  \* ValueError

\* The states whose branch of message_handler consumes the text.
TextStates ==
    {"ADD_TASK", "EDIT_TASK", "RENAME_CHECKLIST", "NEW_CHECKLIST", "ADD_USER_BY_ID",
     "SET_NOTIFICATION_TIME"}

\* message_handler
message_handler(s, u, text) ==
    IF s.fsm_state[u] \in TextStates THEN admin_text(s, u, text) ELSE user_flow(s, u, text)

\* A results entry json.load returns is a list [task, status]; `for _, status
\* in report['results']` raises for an entry of another length.
Unpacks(results) == \A i \in DOMAIN results : Len(results[i]) = 2
DoneCount(results) == Cardinality({i \in DOMAIN results : results[i][2] = "Done"})
AllDone(results) == \A i \in DOMAIN results : results[i][2] = "Done"

\* by_role[key]: the entry is created at zero, then counted
Counted(by, key, all_done) ==
    LET entry == IF key \in DOMAIN by THEN by[key] ELSE [total |-> 0, completed |-> 0]
    IN  Put(by, key, [total |-> entry.total + 1,
                      completed |-> entry.completed + (IF all_done THEN 1 ELSE 0)])

\* One turn of the loop of get_completion_stats: the statements of the try run
\* in order until one raises; what the earlier ones added stays.
CountReport(stats, report) ==
    IF report.role = None \/ report.checklist = None
    THEN stats                                  \* json.load fails, or KeyError
    ELSE LET s1 == [stats EXCEPT !.total_checklists = @ + 1,
                                 !.total_tasks = @ + Len(report.results)]
         IN  IF ~Unpacks(report.results)
             THEN s1                            \* ValueError in the sum over results
             ELSE LET all_done == AllDone(report.results)
                  IN  [s1 EXCEPT
                         !.completed_tasks = @ + DoneCount(report.results),
                         !.completed_checklists = @ + (IF all_done THEN 1 ELSE 0),
                         !.by_role = Counted(@, report.role, all_done),
                         !.by_checklist =
                             Counted(@, <<report.role, report.checklist>>, all_done)]

RECURSIVE CountReports(_, _, _)
CountReports(files, names, stats) ==
    IF names = {} THEN stats
    ELSE LET name == CHOOSE name \in names : TRUE
         IN  CountReports(files, names \ {name}, CountReport(stats, files[name]))

\* get_completion_stats()
get_completion_stats(s) ==
    CountReports(s.reports, DOMAIN s.reports,
                 [total_checklists |-> 0, completed_checklists |-> 0, total_tasks |-> 0,
                  completed_tasks |-> 0, by_role |-> Empty, by_checklist |-> Empty])

\* checklist_keyboard(role) reads checklists[role]: a KeyError for a role the
\* catalog does not hold
RoleKeyboard(s, u, role, msg) ==
    IF role \in DOMAIN s.checklists
    THEN Send(s, u, msg)
    ELSE Raise(s, u, "admin_operation_error")

\* admin_callback_handler after the is_admin guard: the chain of branches on
\* callback.data. cmd is the literal the branch matches, arg the rest of the data.
admin_branch(s, u, cmd, arg, new_password) ==
    LET data == s.fsm_data[u] IN
    IF cmd = "back_to_admin" THEN Send(set_state(s, u, None), u, "returned_to_main_menu")
    ELSE IF cmd = "admin_role:" THEN
        LET role == Field1(arg)
            s1 == [set_state(s, u, "SELECT_CHECKLIST") EXCEPT !.fsm_data[u].role = role]
        IN  RoleKeyboard(s1, u, role, "select_checklist")
    ELSE IF cmd = "cl:" THEN
        IF Truthy(data.role)
        THEN show_checklist_editor(s, u, data.role, Field1(arg))
        ELSE Send(s, u, "role_not_selected")
    ELSE IF cmd = "add_checklist" THEN Send(set_state(s, u, "NEW_CHECKLIST"), u, "enter_checklist_name")
    ELSE IF cmd = "add_task" THEN Send(set_state(s, u, "ADD_TASK"), u, "enter_task_text")
    ELSE IF cmd = "rename_checklist" THEN Send(set_state(s, u, "RENAME_CHECKLIST"), u, "enter_new_name")
    ELSE IF cmd \in {"edit_task:", "delete_task:"} THEN
        LET s1 == [set_state(s, u, IF cmd = "edit_task:" THEN "EDIT_TASK"
                                    ELSE "CONFIRM_DELETE_TASK")
                      EXCEPT !.fsm_data[u].task_index = arg]
        IN  IF Truthy(data.role) /\ Truthy(data.checklist)
            THEN IF ~HasChecklist(s1, data.role, data.checklist)
                 THEN Raise(s1, u, "admin_operation_error")          \* KeyError
                 ELSE IF 0 <= arg /\ arg < Len(TasksOf(s1, data.role, data.checklist))
                 THEN IF cmd = "edit_task:"
                      THEN Send(s1, u, "enter_new_task_text")
                      \* a new message with the button confirm_delete_task:{task_index}
                      \* under the text of the task
                      ELSE Send([s1 EXCEPT !.confirmations[u] =
                                    @ \cup {<<"confirm_delete_task:", arg,
                                              TasksOf(s1, data.role, data.checklist)[arg + 1]>>}],
                                u, "confirm_delete_task")
                 ELSE Send(s1, u, "task_not_found")
            ELSE Send(s1, u, "task_not_found")
    ELSE IF cmd = "confirm_delete_task:" THEN
        IF Truthy(data.role) /\ Truthy(data.checklist)
        THEN IF ~HasChecklist(s, data.role, data.checklist)
             THEN Raise(s, u, "admin_operation_error")              \* KeyError
             ELSE IF 0 <= arg /\ arg < Len(TasksOf(s, data.role, data.checklist))
             THEN LET s1 == [s EXCEPT !.lists[s.checklists[data.role][data.checklist]] =
                                          PopAt(@, arg)]
                      s2 == Send(save_checklists(s1), u, "task_deleted")
                      \* show_checklist_editor(callback, ...) edits the prompt pressed on
                      s3 == [s2 EXCEPT !.confirmations[u] =
                                 {b \in @ : ~(b[1] = "confirm_delete_task:" /\ b[2] = arg)}]
                  IN  set_state(show_checklist_editor(s3, u, data.role, data.checklist),
                                u, "EDIT_CHECKLIST")
             ELSE set_state(Send(s, u, "task_not_found"), u, "EDIT_CHECKLIST")
        ELSE set_state(Send(s, u, "task_not_found"), u, "EDIT_CHECKLIST")
    ELSE IF cmd = "delete_cl:" THEN
        LET s1 == [set_state(s, u, "CONFIRM_DELETE_CHECKLIST")
                      EXCEPT !.fsm_data[u].delete_cl_name = Field1(arg)]
        IN  IF Truthy(data.role)
            \* a new message with the button confirm_delete_cl:{cl_name}
            THEN Send([s1 EXCEPT !.confirmations[u] =
                                     @ \cup {<<"confirm_delete_cl:", Field1(arg)>>}],
                      u, "confirm_delete_checklist")
            ELSE Send(s1, u, "role_not_selected")
    ELSE IF cmd = "confirm_delete_cl:" THEN
        LET role == data.role
            cl_name == Field1(arg)
        IN  IF Truthy(role) /\ HasChecklist(s, role, cl_name)
            THEN LET s1 == save_checklists(Collect(
                             [s EXCEPT !.checklists[role] = Del(@, cl_name)]))
                     s2 == save_user_assignments(
                             [s1 EXCEPT !.user_assignments =
                                 RemoveAssignments(@, role, cl_name)])
                     \* edit_text turns the prompt pressed on into the role menu
                     s3 == Send([s2 EXCEPT !.confirmations[u] =
                                               @ \ {<<"confirm_delete_cl:", arg>>}],
                                u, "checklist_deleted")
                 IN  Send(set_state(s3, u, "SELECT_ROLE"), u, "select_role")
            ELSE Send(s, u, "checklist_not_found")
    ELSE IF cmd = "cancel_delete" THEN
        IF Truthy(data.role) /\ Truthy(data.checklist)
        \* show_checklist_editor(callback, ...) edits the prompt pressed on: the
        \* model keeps none of the sender's prompts
        THEN show_checklist_editor(
                 [set_state(s, u, "EDIT_CHECKLIST") EXCEPT !.confirmations[u] = {}],
                 u, data.role, data.checklist)
        ELSE set_state(Send(s, u, "operation_canceled"), u, None)
    ELSE IF cmd = "back_to_checklists" THEN
        IF Truthy(data.role)
        THEN RoleKeyboard(set_state(s, u, "SELECT_CHECKLIST"), u, data.role, "select_checklist")
        ELSE Send(s, u, "role_not_selected")
    ELSE IF cmd = "back_to_roles" THEN Send(set_state(s, u, "SELECT_ROLE"), u, "select_role")
    ELSE IF cmd = "gen_pass_confirm" THEN
        set_state(Send([s EXCEPT !.BOT_PASSWORD = new_password,
                                 !.old_password = s.BOT_PASSWORD], u, "new_password"),
                  u, None)
    ELSE IF cmd = "clear_reports" THEN Send([s EXCEPT !.reports = Empty], u, "reports_deleted")
    ELSE IF cmd = "admin_cancel" THEN Send(set_state(s, u, None), u, "cancelled")
    ELSE IF cmd = "assign_user" THEN
        Send(set_state(s, u, "SELECT_USER_TO_ASSIGN"), u,
             IF DOMAIN s.user_sessions = {} /\ DOMAIN s.user_data = {}
             THEN "no_users_found" ELSE "select_user")
    ELSE IF cmd = "assign_user:" THEN
        \* edit_text puts the role buttons in place of the menu's
        Send([set_state(s, u, "SELECT_ROLE_TO_ASSIGN")
                 EXCEPT !.fsm_data[u].assign_user_id = arg, !.keyboard[u] = {}],
             u, "select_role_to_assign")
    ELSE IF cmd = "assign_role:" THEN
        IF data.assign_user_id = NoUser
        THEN Send(s, u, "user_not_selected")
        \* one assign_checklist:{cl_name} button per checklist of the role
        ELSE LET s1 == [set_state(s, u, "SELECT_CHECKLIST_TO_ASSIGN")
                           EXCEPT !.fsm_data[u].assign_role = Field1(arg)]
             IN  IF Field1(arg) \in DOMAIN s.checklists
                 THEN Send([s1 EXCEPT !.keyboard[u] = DOMAIN s.checklists[Field1(arg)]],
                           u, "select_checklist_to_assign")
                 ELSE Raise(s1, u, "admin_operation_error")          \* KeyError
    ELSE IF cmd = "assign_checklist:" THEN
        IF data.assign_user_id = NoUser \/ ~Truthy(data.assign_role)
        THEN Send(s, u, "missing_assignment_data")
        ELSE LET s1 == save_user_assignments(
                         [s EXCEPT !.user_assignments =
                             Put(@, Str(data.assign_user_id),
                                 [role |-> data.assign_role, checklist |-> Field1(arg)])])
             IN  Send(set_state(Send(s1, u, "checklist_assigned"), u, "MANAGE_ASSIGNMENTS"),
                      u, "assignments_menu")
    ELSE IF cmd = "remove_assignment:" THEN
        LET s1 == IF arg \in DOMAIN s.user_assignments
                  THEN Send(save_user_assignments(
                              [s EXCEPT !.user_assignments = Del(@, arg)]),
                            u, "assignment_removed")
                  ELSE Send(s, u, "assignment_not_found")
        IN  Send(set_state(s1, u, "MANAGE_ASSIGNMENTS"), u, "assignments_menu")
    ELSE IF cmd = "back_to_assignments" THEN
        Send(set_state(s, u, "MANAGE_ASSIGNMENTS"), u, "assignments_menu")
    ELSE IF cmd = "add_user_by_id" THEN Send(set_state(s, u, "ADD_USER_BY_ID"), u, "enter_user_id")
    ELSE IF cmd \in {"make_admin:", "remove_admin:"} THEN
        LET s1 == IF arg \in DOMAIN s.user_data
                  THEN Send(save_user_data(
                              [s EXCEPT !.user_data[arg].is_admin = (cmd = "make_admin:")]),
                            u, "admin_flag_changed")
                  ELSE Send(s, u, "user_not_found")
        IN  Send(set_state(s1, u, "MANAGE_USERS"), u, "users_menu")
    ELSE IF cmd = "back_to_users" THEN Send(set_state(s, u, "MANAGE_USERS"), u, "users_menu")
    ELSE IF cmd \in {"enable_notifications", "disable_notifications"} THEN
        Send(save_notification_settings(
               [s EXCEPT !.notification_settings.enabled = (cmd = "enable_notifications")]),
             u, "notifications_switched")
    ELSE IF cmd = "set_reminder_time" THEN
        Send(set_state(s, u, "SET_NOTIFICATION_TIME"), u, "enter_reminder_time")
    ELSE IF cmd = "toggle_user_notification:" THEN
        LET users == s.notification_settings.users
            current_status == IF arg \in DOMAIN users THEN users[arg].enabled ELSE TRUE
            s1 == save_notification_settings(
                    [s EXCEPT !.notification_settings.users =
                        Put(@, arg, [enabled |-> ~current_status])])
        IN  Send(set_state(Send(s1, u, "user_notifications_toggled"), u,
                           "MANAGE_NOTIFICATIONS"), u, "notifications_menu")
    ELSE IF cmd = "back_to_notifications" THEN
        Send(set_state(s, u, "MANAGE_NOTIFICATIONS"), u, "notifications_menu")
    ELSE IF cmd = "back_to_statistics" THEN
        Send(set_state(s, u, "VIEW_STATISTICS"), u, "statistics_menu")
    ELSE IF cmd = "completion_stats" THEN
        LET stats == get_completion_stats(s)
        IN  IF stats.total_checklists = 0
            THEN Send(s, u, "no_completion_data")
            ELSE [s EXCEPT !.outbox = Append(@, [to |-> u, msg |-> "completion_stats",
                                                 stats |-> stats])]
    ELSE IF cmd \in {"view_reports", "download_reports", "view_assignments",
                     "remove_assignment", "view_all_users", "make_admin", "remove_admin",
                     "manage_user_notifications", "user_activity_stats",
                     "checklist_stats"}
    THEN Send(s, u, "listing")                                      \* reads only
    ELSE Send(s, u, "unknown_command")

\* admin_callback_handler
admin_callback_unguarded(s, u, cmd, arg, new_password) ==
    admin_branch(s, u, cmd, arg, new_password)
admin_callback_handler(s, u, cmd, arg, new_password) ==
    IF ~is_admin(s, u)
    THEN Send(s, u, "access_denied")
    ELSE admin_branch(s, u, cmd, arg, new_password)

\* edit_checklists_handler, manage_assignments_handler, manage_users_handler,
\* manage_notifications_handler, view_statistics_handler, reports_handler,
\* generate_password_handler: the guard and the state each sets
CommandState(command) ==
    CASE command = "edit_checklists" -> "SELECT_ROLE"
      [] command = "manage_assignments" -> "MANAGE_ASSIGNMENTS"
      [] command = "manage_users" -> "MANAGE_USERS"
      [] command = "manage_notifications" -> "MANAGE_NOTIFICATIONS"
      [] command = "view_statistics" -> "VIEW_STATISTICS"
      [] command = "reports" -> "VIEW_REPORTS"
      [] command = "generate_password" -> "GENERATE_PASSWORD"

command_handler(s, u, command) ==
    IF ~is_admin(s, u)
    THEN Send(s, u, "no_permission")
    ELSE Send(set_state(s, u, CommandState(command)), u, "menu")

(***************************************************************************)
(* Events: one action per handler, applied to the current state.           *)
(***************************************************************************)
\* No list is longer than the model lets it grow.
WithinBounds(n) == \A i \in DOMAIN n.lists : Len(n.lists[i]) <= MaxTasks

\* The event as `last` records it: state is the sender's admin state before it,
\* down the recipients the transport fails to reach while it is handled.
Event(handler, u, cmd, arg) ==
    [handler |-> handler, user |-> u, cmd |-> cmd, arg |-> arg,
     state |-> fsm_state[u], down |-> {}, exc |-> FALSE]

Apply(result, ev) ==
    \E n \in {result} :
        /\ WithinBounds(n)
        /\ checklists' = n.checklists
        /\ lists' = n.lists
        /\ user_assignments' = n.user_assignments
        /\ user_data' = n.user_data
        /\ notification_settings' = n.notification_settings
        /\ user_sessions' = n.user_sessions
        /\ fsm_state' = n.fsm_state
        /\ fsm_data' = n.fsm_data
        /\ BOT_PASSWORD' = n.BOT_PASSWORD
        /\ disk' = n.disk
        /\ reports' = n.reports
        /\ now' = n.now
        /\ prompted' = n.prompted
        /\ keyboard' = n.keyboard
        /\ confirmations' = n.confirmations
        /\ old_password' = n.old_password
        /\ outbox' = n.outbox
        /\ walk_start' = [u \in Users |-> IF InTaskStep(n, u) THEN n.walk_start[u] ELSE <<>>]
        /\ last' = [ev EXCEPT !.exc = n.exc]

StartHandler(u) ==
    Apply(start_handler(Cur, u), Event("start_handler", u, "/start", None))

CommandHandler(u, command) ==
    Apply(command_handler(Cur, u, command), Event("command_handler", u, command, None))

MessageHandler(u, text) ==
    Apply(message_handler(Cur, u, text), Event("message_handler", u, "text", text))

\* A task button can be pressed once a task prompt is in the chat; the sends a
\* completion makes to the administrators in `down` fail.
CallbackHandler(u, cmd, arg, down) ==
    /\ cmd = "task" => u \in prompted
    /\ Apply(callback_handler(Cur, u, cmd, arg, down),
             [Event("callback_handler", u, cmd, arg) EXCEPT !.down = down])

AdminCallbackHandler(u, cmd, arg, new_password) ==
    Apply(admin_callback_handler(Cur, u, cmd, arg, new_password),
          Event("admin_callback_handler", u, cmd, arg))

\* A second passes on the wall clock.
Tick ==
    /\ now < MaxClock
    /\ now' = now + 1
    /\ outbox' = <<>>
    /\ last' = [handler |-> "clock", user |-> NoUser, cmd |-> None, arg |-> None,
                state |-> None, down |-> {}, exc |-> FALSE]
    /\ UNCHANGED <<checklists, lists, user_assignments, user_data, notification_settings,
                   user_sessions, fsm_state, fsm_data, BOT_PASSWORD, disk, reports,
                   prompted, keyboard, confirmations, old_password, walk_start>>

(***************************************************************************)
(* The state after construction.                                           *)
(***************************************************************************)
\* load_checklists(): the default catalog, each task list cut to a few tasks
DefaultLists == (1 :> <<"wipe">>) @@ (2 :> <<"wipe", "lock">>) @@ (3 :> <<"lock">>)
DefaultChecklists ==
    [r \in RoleNames |->
        IF r = "Bartender" THEN ("Opening" :> 1) @@ ("Closing" :> 2)
        ELSE ("Opening" :> 3)]

\* load_notification_settings()
DefaultNotificationSettings == [enabled |-> FALSE, reminder_time |-> "09:00", users |-> Empty]

\* The module level of bot.py with user_assignments.json holding ua and
\* user_data.json holding ud.
InitWith(ua, ud) ==
    /\ checklists = DefaultChecklists
    /\ lists = DefaultLists
    /\ user_assignments = ua
    /\ user_data = ud
    /\ notification_settings = DefaultNotificationSettings
    /\ user_sessions = Empty
    /\ fsm_state = [u \in Users |-> None]
    /\ fsm_data = [u \in Users |-> NoData]
    /\ BOT_PASSWORD = "default_password"
    /\ disk = [checklists |->
                  [r \in RoleNames |->
                      [c \in DOMAIN DefaultChecklists[r] |-> DefaultLists[DefaultChecklists[r][c]]]],
               user_assignments |-> ua, user_data |-> ud,
               notification_settings |-> DefaultNotificationSettings]
    /\ reports = Empty
    /\ now = 0
    /\ prompted = {}
    /\ keyboard = [u \in Users |-> {}]
    /\ confirmations = [u \in Users |-> {}]
    /\ old_password = None
    /\ outbox = <<>>
    /\ last = [handler |-> "none", user |-> NoUser, cmd |-> None, arg |-> None,
               state |-> None, down |-> {}, exc |-> FALSE]
    /\ walk_start = [u \in Users |-> <<>>]

(***************************************************************************)
(* The inputs of the model.                                                *)
(***************************************************************************)
\* The texts a user sends: by the state the conversation is in, the texts
\* that state tells apart.
TextInputs(u) ==
    CASE fsm_state[u] \in {"ADD_TASK", "EDIT_TASK"} -> {"mop"}
      [] fsm_state[u] \in {"RENAME_CHECKLIST", "NEW_CHECKLIST"} -> ChecklistNames
      [] fsm_state[u] = "ADD_USER_BY_ID" -> {"3", "abc"}
      [] fsm_state[u] = "SET_NOTIFICATION_TIME" -> {"18:30", "soon"}
      [] OTHER -> IF u \in DOMAIN user_sessions THEN DisplayNames ELSE Passwords

(***************************************************************************)
(* SpecSnapshot: a user walks the assigned checklist while an              *)
(* administrator edits its tasks.                                          *)
(***************************************************************************)
Walker == 3
Editor == 1

SnapshotInit ==
    InitWith("3" :> [role |-> "Bartender", checklist |-> "Opening"], Empty)

\* The buttons the editing of Bartender / Opening puts in the administrator's chat.
EditorButtons ==
    {<<"admin_role:", "Bartender">>, <<"cl:", "Opening">>, <<"add_task", None>>}
        \cup {<<c, i>> : c \in {"edit_task:", "delete_task:", "confirm_delete_task:"},
                         i \in 0..(MaxTasks - 1)}

WalkerStart == StartHandler(Walker)
WalkerText == \E text \in TextInputs(Walker) : MessageHandler(Walker, text)
WalkerPress == \E r \in Outcomes : CallbackHandler(Walker, "task", r, {})
EditorPress == \E b \in EditorButtons : AdminCallbackHandler(Editor, b[1], b[2], None)
EditorText ==
    /\ fsm_state[Editor] \in TextStates
    /\ \E text \in TextInputs(Editor) : MessageHandler(Editor, text)

SnapshotNext == WalkerStart \/ WalkerText \/ WalkerPress \/ EditorPress \/ EditorText

SpecSnapshot == SnapshotInit /\ [][SnapshotNext]_vars

(***************************************************************************)
(* Claims settled under SpecSnapshot.                                      *)
(***************************************************************************)
\* C1: snapshot isolation. While a session is in the task step, its task list
\* is the checklist's task list of the moment the walk started, whatever an
\* administrator adds to, edits in or deletes from the checklist meanwhile.
C1_SnapshotIsolation ==
    \A u \in DOMAIN user_sessions :
        user_sessions[u].step = "task" => lists[user_sessions[u].tasks] = walk_start[u]

\* A task press by u that callback_handler accepts: u's session is in the task step.
AcceptedPress(u) ==
    /\ last'.handler = "callback_handler"
    /\ last'.cmd = "task"
    /\ last'.user = u
    /\ InTaskStep(Cur, u)

\* C2: every accepted task response appends exactly one (task, outcome) pair
\* and advances current_task by exactly 1 (the completed run's results are the
\* report's); current_task never decreases during a run and
\* len(results) = current_task after every response.
C2_ResponseAdvances ==
    [][\A u \in Users :
        /\ AcceptedPress(u) =>
              IF u \in DOMAIN user_sessions'
              THEN /\ user_sessions'[u].current_task = user_sessions[u].current_task + 1
                   /\ Len(user_sessions'[u].results) = Len(user_sessions[u].results) + 1
              ELSE /\ <<now, u>> \in DOMAIN reports'
                   /\ Len(reports'[<<now, u>>].results) = Len(user_sessions[u].results) + 1
        /\ (InTaskStep(Cur, u) /\ u \in DOMAIN user_sessions' /\ user_sessions'[u].step = "task")
              => /\ user_sessions'[u].current_task >= user_sessions[u].current_task
                 /\ Len(user_sessions'[u].results) = user_sessions'[u].current_task
      ]_vars

(***************************************************************************)
(* SpecCommit: an administrator edits the tasks of a checklist and deletes *)
(* the checklist, pressing buttons of earlier menus as well.               *)
(***************************************************************************)
CommitButtons == EditorButtons \cup {<<"confirm_delete_cl:", "Opening">>}

CommitPress == \E b \in CommitButtons : AdminCallbackHandler(Editor, b[1], b[2], None)

CommitNext == CommitPress \/ EditorText

SpecCommit == SnapshotInit /\ [][CommitNext]_vars

\* The target of u's pending task commit is stale: the checklist under edit is
\* gone from the catalog, or index i is outside its task list.
StaleTarget(u, i) ==
    LET d == fsm_data[u] IN
    /\ Truthy(d.role) /\ Truthy(d.checklist)
    /\ \/ ~HasChecklist(Cur, d.role, d.checklist)
       \/ ~(0 <= i /\ i < Len(TasksOf(Cur, d.role, d.checklist)))

\* The commit of EditTask (the text sent in EDIT_TASK) or of DeleteTask (the
\* confirm_delete_task press) by administrator u on a stale target.
StaleCommit(u) ==
    /\ last'.user = u
    /\ is_admin(Cur, u)
    /\ \/ /\ last'.handler = "message_handler"
          /\ fsm_state[u] = "EDIT_TASK"
          /\ StaleTarget(u, fsm_data[u].task_index)
       \/ /\ last'.handler = "admin_callback_handler"
          /\ last'.cmd = "confirm_delete_task:"
          /\ StaleTarget(u, last'.arg)

\* C10: a commit of EditTask(i) or DeleteTask(i) whose checklist is missing or
\* whose index is out of range raises no exception and leaves the catalog
\* unchanged.
C10_StaleCommitIsOrdinaryError ==
    [][\A u \in Users :
        StaleCommit(u) => /\ ~last'.exc
                          /\ checklists' = checklists
                          /\ lists' = lists]_vars

(***************************************************************************)
(* SpecWalk: a user walks the assigned checklist, again and again, while   *)
(* the clock runs and sends to administrators fail.                        *)
(***************************************************************************)
\* user_assignments.json assigns the walker a checklist of one or of two
\* tasks; user_data.json holds user 4, an administrator by flag.
WalkInit ==
    \E cl \in {"Opening", "Closing"} :
        InitWith("3" :> [role |-> "Bartender", checklist |-> cl],
                 "4" :> [name |-> "Dana", is_admin |-> TRUE])

WalkPress ==
    \E r \in Outcomes, down \in SUBSET (Users \ {Walker}) :
        CallbackHandler(Walker, "task", r, down)

WalkNext == WalkerStart \/ WalkerText \/ WalkPress \/ Tick

SpecWalk == WalkInit /\ [][WalkNext]_vars

(***************************************************************************)
(* Claims settled under SpecWalk.                                          *)
(***************************************************************************)
\* The accepted press by u that answers the last task of u's session.
CompletingPress(u) ==
    /\ AcceptedPress(u)
    /\ user_sessions[u].current_task + 1 = Len(SessionTasks(Cur, u))

\* C3: the response that completes a run adds exactly one new record to the
\* report store, carrying the session's user, role, checklist and results in
\* prompt order, one per task; every record already stored stays as it was.
C3_OneNewReportPerRun ==
    [][\A u \in Users :
        CompletingPress(u) =>
            /\ \A k \in DOMAIN reports : k \in DOMAIN reports' /\ reports'[k] = reports[k]
            /\ \E k \in (DOMAIN reports') \ (DOMAIN reports) :
                /\ DOMAIN reports' = (DOMAIN reports) \cup {k}
                /\ reports'[k].user_id = u
                /\ reports'[k].role = user_sessions[u].role
                /\ reports'[k].checklist = user_sessions[u].checklist
                /\ Len(reports'[k].results) = Len(SessionTasks(Cur, u))
                /\ SubSeq(reports'[k].results, 1, Len(user_sessions[u].results))
                       = user_sessions[u].results
      ]_vars

\* The administrators: the static allowlist and every user record flagged is_admin.
Administrators == {a \in Users : is_admin(Cur, a)}

\* The last event completed a run: the user was sent the acknowledgement.
RunCompleted ==
    /\ last.handler = "callback_handler"
    /\ [to |-> last.user, msg |-> "completed"] \in {outbox[i] : i \in DOMAIN outbox}

\* C4: on completion the report is sent to every administrator the transport
\* reaches, whichever other administrators it fails to reach.
C4_ReportReachesEveryAdmin ==
    RunCompleted =>
        \A a \in Administrators \ last.down :
            [to |-> a, msg |-> "report"] \in {outbox[i] : i \in DOMAIN outbox}

(***************************************************************************)
(* SpecGuard: a user who is an administrator by flag and a user who is not *)
(* use the admin commands, buttons and text inputs while a static          *)
(* administrator sets and clears the flag.                                 *)
(***************************************************************************)
Flagged == 3
Outsider == 4

GuardInit == InitWith(Empty, "3" :> [name |-> "Cara", is_admin |-> TRUE])

AdminCommands ==
    {"edit_checklists", "manage_assignments", "manage_users", "manage_notifications",
     "view_statistics", "reports", "generate_password"}

GuardButtons ==
    {<<"admin_role:", "Bartender">>, <<"cl:", "Opening">>, <<"add_task", None>>,
     <<"set_reminder_time", None>>, <<"add_user_by_id", None>>,
     <<"gen_pass_confirm", None>>}

GuardCommand ==
    \E u \in {Flagged, Outsider}, command \in AdminCommands : CommandHandler(u, command)

GuardPress ==
    \E u \in {Flagged, Outsider}, b \in GuardButtons :
        AdminCallbackHandler(u, b[1], b[2], "Xk3!generated")

GuardFlag ==
    \E cmd \in {"make_admin:", "remove_admin:"} :
        AdminCallbackHandler(Editor, cmd, Str(Flagged), "Xk3!generated")

\* A text sent while the sender's state is one that consumes it.
GuardText ==
    \E u \in {Flagged, Outsider} :
        /\ fsm_state[u] \in TextStates
        /\ \E text \in TextInputs(u) : MessageHandler(u, text)

GuardNext == GuardCommand \/ GuardPress \/ GuardFlag \/ GuardText

SpecGuard == GuardInit /\ [][GuardNext]_vars

(***************************************************************************)
(* Claims settled under SpecGuard.                                         *)
(***************************************************************************)
\* The step is an admin entry point or an admin transition taken by u: an
\* admin command, an admin button press, or a text consumed in a text state.
AdminEvent(u) ==
    /\ last'.user = u
    /\ \/ last'.handler \in {"command_handler", "admin_callback_handler"}
       \/ last'.handler = "message_handler" /\ fsm_state[u] \in TextStates

Denials == {"access_denied", "no_permission"}

\* C5: an admin command, button press or text input from a user who is not an
\* administrator when it arrives is answered with a denial and changes neither
\* the conversation state nor any store.
C5_AdminGuard ==
    [][\A u \in Users :
        (AdminEvent(u) /\ ~is_admin(Cur, u)) =>
            /\ \E i \in DOMAIN outbox' : outbox'[i].to = u /\ outbox'[i].msg \in Denials
            /\ fsm_state' = fsm_state
            /\ UNCHANGED <<checklists, lists, user_assignments, user_data,
                           notification_settings, BOT_PASSWORD, disk, reports>>
      ]_vars

(***************************************************************************)
(* Spec: the dispatcher main() builds. Updates go to the first registered  *)
(* handler whose filters pass; a user walks a checklist and an             *)
(* administrator uses the admin commands and buttons.                      *)
(***************************************************************************)
\* dp.callback_query.register(...), in registration order
callback_query_handlers == <<"callback_handler", "admin_callback_handler">>

\* Neither registration carries a filter: each handler accepts every press.
Accepts(handler, u, cmd) == handler \in {"callback_handler", "admin_callback_handler"}

\* The first registered handler that accepts the press handles it; none after it runs.
Route(u, cmd) ==
    LET accepting == {i \in DOMAIN callback_query_handlers :
                          Accepts(callback_query_handlers[i], u, cmd)}
    IN  callback_query_handlers[CHOOSE i \in accepting : \A j \in accepting : i <= j]

\* dp.callback_query: an inbound button press
CallbackQuery(u, cmd, arg) ==
    IF Route(u, cmd) = "callback_handler"
    THEN CallbackHandler(u, cmd, arg, {})
    ELSE AdminCallbackHandler(u, cmd, arg, "Xk3!generated")

\* The buttons in the chats: the task prompt's, and those of the admin menus.
DispatchButtons ==
    {<<"task", r>> : r \in Outcomes}
        \cup {<<"gen_pass_confirm", None>>, <<"admin_role:", "Bartender">>,
              <<"assign_checklist:", "Opening">>, <<"confirm_delete_task:", 0>>,
              <<"back_to_admin", None>>}

DispatchStart == \E u \in {Editor, Walker} : StartHandler(u)
DispatchCommand == \E command \in AdminCommands : CommandHandler(Editor, command)
DispatchText == \E u \in {Editor, Walker} : \E text \in TextInputs(u) : MessageHandler(u, text)
DispatchPress == \E u \in {Editor, Walker}, b \in DispatchButtons : CallbackQuery(u, b[1], b[2])

Next == DispatchStart \/ DispatchCommand \/ DispatchText \/ DispatchPress

Spec == SnapshotInit /\ [][Next]_vars

(***************************************************************************)
(* Claims settled under Spec.                                              *)
(***************************************************************************)
\* The step handles a button press.
ButtonPress == last'.handler \in {"callback_handler", "admin_callback_handler"}

\* The persisted conversation state marks u as being in an admin flow.
InAdminFlow(u) == fsm_state[u] # None

\* C6: a button press from a user whose conversation state marks an admin flow
\* is handled by admin_callback_handler, every other press by callback_handler;
\* gen_pass_confirm pressed by an administrator in an admin flow takes effect.
C6_DispatcherRouting ==
    [][ButtonPress =>
        /\ (last'.handler = "admin_callback_handler") = InAdminFlow(last'.user)
        /\ (last'.cmd = "gen_pass_confirm" /\ InAdminFlow(last'.user)
                /\ is_admin(Cur, last'.user))
            => [to |-> last'.user, msg |-> "new_password"]
                   \in {outbox'[i] : i \in DOMAIN outbox'}
      ]_vars

(***************************************************************************)
(* SpecCatalog: one administrator opens, renames and deletes checklists    *)
(* of the role Bartender that users are assigned to.                       *)
(***************************************************************************)
CatalogInit ==
    InitWith(("2" :> [role |-> "Bartender", checklist |-> "Closing"])
                 @@ ("3" :> [role |-> "Bartender", checklist |-> "Opening"])
                 @@ ("4" :> [role |-> "Cashier", checklist |-> "Opening"]),
             Empty)

\* The buttons of the role menu, of the checklist menu and editor, and of the
\* delete confirmation, which carries the name its delete request read.
CatalogButtons ==
    {<<"admin_role:", "Bartender">>}
        \cup {<<c, cl>> : c \in {"cl:", "delete_cl:"}, cl \in ChecklistNames}
        \cup {<<"confirm_delete_cl:", Field1(cl)>> : cl \in ChecklistNames}
        \cup {<<"rename_checklist", None>>, <<"cancel_delete", None>>}

CatalogPress == \E b \in CatalogButtons : AdminCallbackHandler(Editor, b[1], b[2], None)

CatalogNext == CatalogPress \/ EditorText

SpecCatalog == CatalogInit /\ [][CatalogNext]_vars

(***************************************************************************)
(* Claims settled under SpecCatalog.                                       *)
(***************************************************************************)
\* The step is u's text in RenameChecklist renaming the existing (r, old) to new.
Renames(u, r, old, new) ==
    /\ last'.handler = "message_handler" /\ last'.user = u /\ last'.arg = new
    /\ fsm_state[u] = "RENAME_CHECKLIST"
    /\ fsm_data[u].role = r /\ fsm_data[u].checklist = old
    /\ HasChecklist(Cur, r, old)

\* What the claim lets a rename of (r, old) to new do to the catalog and the
\* assignments.
RenameCascaded(r, old, new) ==
    /\ DOMAIN user_assignments' = DOMAIN user_assignments
    /\ \A k \in DOMAIN user_assignments :
           user_assignments'[k] =
               IF user_assignments[k] = [role |-> r, checklist |-> old]
               THEN [role |-> r, checklist |-> new]
               ELSE user_assignments[k]
    /\ new \in DOMAIN checklists'[r]
    /\ lists'[checklists'[r][new]] = lists[checklists[r][old]]
    /\ old \notin DOMAIN checklists'[r]

\* C7 as stated: renaming (r, old) to (r, new) moves every assignment of
\* (r, old) to (r, new), changes no other assignment, keeps the task list under
\* the new name and leaves the old name absent from the catalog.
C7_RenameCascadeAnyName ==
    [][\A u \in Users, r \in RoleNames, old, new \in ChecklistNames :
        Renames(u, r, old, new) => RenameCascaded(r, old, new)]_vars

\* C7, amended: renaming (r, old) to a different name (r, new) moves every
\* assignment of (r, old) to (r, new), changes no other assignment, keeps the
\* task list under the new name and leaves the old name absent from the
\* catalog; renaming to the same name leaves catalog and assignments as they were.
C7_RenameCascade ==
    [][\A u \in Users, r \in RoleNames, old, new \in ChecklistNames :
        Renames(u, r, old, new) =>
            IF new # old
            THEN RenameCascaded(r, old, new)
            ELSE /\ user_assignments' = user_assignments
                 /\ DOMAIN checklists'[r] = DOMAIN checklists[r]
                 /\ lists'[checklists'[r][old]] = lists[checklists[r][old]]
      ]_vars

\* A rename has moved user 3's assignment to a new name and left the others'.
C7_Renamed ==
    /\ last.handler = "message_handler" /\ last.state = "RENAME_CHECKLIST"
    /\ last.arg = "Closing:Bar"
    /\ "3" \in DOMAIN user_assignments /\ "2" \in DOMAIN user_assignments
    /\ user_assignments["3"] = [role |-> "Bartender", checklist |-> "Closing:Bar"]
    /\ user_assignments["2"] = [role |-> "Bartender", checklist |-> "Closing"]
    /\ "Opening" \notin DOMAIN checklists["Bartender"]
    /\ "Closing:Bar" \in DOMAIN checklists["Bartender"]

\* The step is u's confirmation of the deletion of the existing (r, c).
ConfirmsDelete(u, r, c) ==
    /\ last'.handler = "admin_callback_handler" /\ last'.user = u
    /\ last'.cmd = "confirm_delete_cl:" /\ last'.arg = c
    /\ is_admin(Cur, u)
    /\ fsm_data[u].role = r
    /\ HasChecklist(Cur, r, c)

\* C8: a confirmed deletion of checklist (r, c) removes (r, c) from the
\* catalog, removes every assignment of (r, c) and no assignment of any other
\* (role, checklist) pair.
C8_DeleteCascade ==
    [][\A u \in Users, r \in RoleNames, c \in ChecklistNames :
        ConfirmsDelete(u, r, c) =>
            /\ c \notin DOMAIN checklists'[r]
            /\ \A k \in DOMAIN user_assignments :
                   IF user_assignments[k] = [role |-> r, checklist |-> c]
                   THEN k \notin DOMAIN user_assignments'
                   ELSE k \in DOMAIN user_assignments'
                            /\ user_assignments'[k] = user_assignments[k]
            /\ DOMAIN user_assignments' \subseteq DOMAIN user_assignments
      ]_vars

\* Bartender / Opening has been deleted: user 3's assignment went with it, the
\* assignment of Cashier / Opening and that of Bartender / Closing stayed.
C8_Deleted ==
    /\ last.handler = "admin_callback_handler" /\ last.cmd = "confirm_delete_cl:"
    /\ last.arg = "Opening"
    /\ "Opening" \notin DOMAIN checklists["Bartender"]
    /\ "3" \notin DOMAIN user_assignments
    /\ "4" \in DOMAIN user_assignments
    /\ user_assignments["4"] = [role |-> "Cashier", checklist |-> "Opening"]
    /\ "2" \in DOMAIN user_assignments

(***************************************************************************)
(* SpecAssign: one administrator assigns checklists to a user while        *)
(* another deletes and renames checklists.                                 *)
(***************************************************************************)
Assigner == 1
Keeper == 2

AssignInit == InitWith("4" :> [role |-> "Cashier", checklist |-> "Opening"], Empty)

\* The assignment menu's buttons; a checklist button is one the keyboard in
\* the administrator's chat holds.
AssignButtons ==
    {<<"assign_user:", Walker>>, <<"remove_assignment:", Str(Walker)>>}
        \cup {<<"assign_role:", r>> : r \in RoleNames}
        \cup {<<"assign_checklist:", cl>> : cl \in keyboard[Assigner]}

KeeperButtons ==
    {<<"admin_role:", "Bartender">>, <<"cl:", "Opening">>, <<"rename_checklist", None>>,
     <<"delete_cl:", "Opening">>, <<"confirm_delete_cl:", "Opening">>}

AssignPress == \E b \in AssignButtons : AdminCallbackHandler(Assigner, b[1], b[2], None)
KeeperPress == \E b \in KeeperButtons : AdminCallbackHandler(Keeper, b[1], b[2], None)
KeeperText ==
    /\ fsm_state[Keeper] \in TextStates
    /\ \E text \in TextInputs(Keeper) : MessageHandler(Keeper, text)

AssignNext == AssignPress \/ KeeperPress \/ KeeperText

SpecAssign == AssignInit /\ [][AssignNext]_vars

(***************************************************************************)
(* Claims settled under SpecAssign.                                        *)
(***************************************************************************)
\* C9: no dangling assignment. Every assignment references a role and a
\* checklist that the catalog holds, after any interleaving of the
\* administrators' assignments, removals, renames and deletions.
C9_NoDanglingAssignment ==
    \A k \in DOMAIN user_assignments :
        HasChecklist(Cur, user_assignments[k].role, user_assignments[k].checklist)

(***************************************************************************)
(* Claims settled under SpecSnapshot, continued.                           *)
(***************************************************************************)
\* The step is the name entry by u that puts u's session in the task step;
\* send_task then reads the task at index 0 to prompt it.
StartsWalk(u) ==
    /\ last'.handler = "message_handler" /\ last'.user = u
    /\ ~InTaskStep(Cur, u)
    /\ u \in DOMAIN user_sessions' /\ user_sessions'[u].step = "task"

\* C11: whenever a session in the task step reads its current task, to record
\* a response or to prompt the task, the index read is within the session's
\* task list, whatever the administrators did to the catalog meanwhile.
C11_IndexInBoundsWhenRead ==
    [][\A u \in Users :
        /\ AcceptedPress(u) =>
               /\ 0 <= user_sessions[u].current_task
               /\ user_sessions[u].current_task < Len(SessionTasks(Cur, u))
        /\ StartsWalk(u) =>
               user_sessions'[u].current_task < Len(lists'[user_sessions'[u].tasks])
      ]_vars

(***************************************************************************)
(* SpecConfirm: one administrator edits the checklists of Bartender and    *)
(* asks for, confirms and cancels deletions; a "Yes, delete" or "Cancel"   *)
(* button is pressed on a prompt the chat holds.                           *)
(***************************************************************************)
ConfirmMenuButtons ==
    {<<"admin_role:", "Bartender">>, <<"back_to_checklists", None>>}
        \cup {<<c, cl>> : c \in {"cl:", "delete_cl:"}, cl \in {"Opening", "Closing"}}
        \cup {<<"delete_task:", i>> : i \in 0..(MaxTasks - 1)}

ConfirmMenuPress ==
    \E b \in ConfirmMenuButtons : AdminCallbackHandler(Editor, b[1], b[2], None)

ConfirmYes ==
    \E b \in confirmations[Editor] : AdminCallbackHandler(Editor, b[1], b[2], None)

ConfirmCancel ==
    /\ confirmations[Editor] # {}
    /\ AdminCallbackHandler(Editor, "cancel_delete", None, None)

ConfirmNext == ConfirmMenuPress \/ ConfirmYes \/ ConfirmCancel

SpecConfirm == SnapshotInit /\ [][ConfirmNext]_vars

(***************************************************************************)
(* Claims settled under SpecConfirm.                                       *)
(***************************************************************************)
\* The catalog by value: role -> checklist name -> tasks.
Catalog == Deref(Cur)
CatalogAfter == [r \in DOMAIN checklists' |->
                    [c \in DOMAIN checklists'[r] |-> lists'[checklists'[r][c]]]]

\* C12: a task or a checklist is removed only by a "yes" received while the
\* administrator's conversation is in the confirmation sub-state of that same
\* target; the delete request alone changes neither catalog nor assignments.
C12_DeleteOnlyInConfirmation ==
    [][LET u == last'.user IN
        /\ (last'.handler = "admin_callback_handler"
                /\ last'.cmd \in {"delete_task:", "delete_cl:"})
            => (CatalogAfter = Catalog /\ user_assignments' = user_assignments)
        /\ (last'.handler = "admin_callback_handler"
                /\ last'.cmd = "confirm_delete_task:" /\ CatalogAfter # Catalog)
            => (fsm_state[u] = "CONFIRM_DELETE_TASK"
                    /\ fsm_data[u].task_index = last'.arg)
        /\ (last'.handler = "admin_callback_handler"
                /\ last'.cmd = "confirm_delete_cl:" /\ CatalogAfter # Catalog)
            => (fsm_state[u] = "CONFIRM_DELETE_CHECKLIST"
                    /\ fsm_data[u].delete_cl_name = last'.arg)
      ]_vars

\* C13: cancel in a delete confirmation leaves the catalog and the assignments
\* unchanged and returns the administrator to the editor, with the role and
\* checklist under edit unchanged.
C13_CancelReturnsToEditor ==
    [][LET u == last'.user IN
        (last'.handler = "admin_callback_handler" /\ last'.cmd = "cancel_delete"
            /\ fsm_state[u] \in {"CONFIRM_DELETE_TASK", "CONFIRM_DELETE_CHECKLIST"})
        => /\ CatalogAfter = Catalog
           /\ user_assignments' = user_assignments
           /\ fsm_state'[u] \in {"EDIT_CHECKLIST", "SELECT_CHECKLIST"}
           /\ fsm_data'[u].role = fsm_data[u].role
           /\ fsm_data'[u].checklist = fsm_data[u].checklist
      ]_vars

(***************************************************************************)
(* SpecNotify: the background task sends the daily reminders while an      *)
(* administrator switches notifications.                                   *)
(***************************************************************************)
\* The minutes of the day the background task reads from the wall clock.
ClockTimes == {"09:00", "18:30"}

\* `user_id not in user_assignments`: user_id is the int made of the key of
\* the per-user settings, the keys of user_assignments are str, and in Python
\* no str equals an int.
StrEqualsInt(key, user_id) == FALSE
IntKeyIn(user_id, dict) == \E key \in DOMAIN dict : StrEqualsInt(key, user_id)

RECURSIVE SendReminders(_, _)
SendReminders(s, tos) ==
    IF tos = {} THEN s
    ELSE LET to == CHOOSE x \in tos : \A y \in tos : x <= y
             assignment == s.user_assignments[Str(to)]
         IN SendReminders(
                [s EXCEPT !.outbox = Append(@, [to |-> to, msg |-> "reminder",
                                                role |-> assignment.role,
                                                checklist |-> assignment.checklist])],
                tos \ {to})

send_notifications(s, current_time) ==
    IF ~s.notification_settings.enabled THEN s
    ELSE IF current_time # s.notification_settings.reminder_time THEN s
    ELSE LET users == s.notification_settings.users
         IN SendReminders(s, {u \in Users : /\ Str(u) \in DOMAIN users
                                            /\ users[Str(u)].enabled
                                            /\ IntKeyIn(u, s.user_assignments)})

\* One turn of notification_task's loop, at the minute current_time.
NotificationTask(current_time) ==
    Apply(send_notifications(Cur, current_time),
          [handler |-> "send_notifications", user |-> NoUser, cmd |-> None,
           arg |-> current_time, state |-> None, down |-> {}, exc |-> FALSE])

NotifyInit ==
    InitWith(("2" :> [role |-> "Bartender", checklist |-> "Closing"])
                 @@ ("3" :> [role |-> "Bartender", checklist |-> "Opening"]),
             Empty)

NotifyButtons ==
    {<<"enable_notifications", None>>, <<"disable_notifications", None>>,
     <<"set_reminder_time", None>>}
        \cup {<<"toggle_user_notification:", Str(u)>> : u \in {2, 3, 4}}

NotifyPress ==
    \E b \in NotifyButtons : AdminCallbackHandler(Editor, b[1], b[2], None)

NotifyText ==
    /\ fsm_state[Editor] = "SET_NOTIFICATION_TIME"
    /\ \E text \in TextInputs(Editor) : MessageHandler(Editor, text)

NotifyClock == \E current_time \in ClockTimes : NotificationTask(current_time)

NotifyNext == NotifyPress \/ NotifyText \/ NotifyClock

SpecNotify == NotifyInit /\ [][NotifyNext]_vars

(***************************************************************************)
(* Claims settled under SpecNotify.                                        *)
(***************************************************************************)
\* The users a reminder is due to: an assignment, and no per-user setting
\* switched off.
ReminderDue ==
    {u \in Users : /\ Str(u) \in DOMAIN user_assignments
                   /\ \/ Str(u) \notin DOMAIN notification_settings.users
                      \/ notification_settings.users[Str(u)].enabled}

Reminders(u) ==
    {i \in DOMAIN outbox' : outbox'[i].to = u /\ outbox'[i].msg = "reminder"}

\* C14: when notifications are enabled and the clock reads the reminder time,
\* a turn of the background task sends exactly one reminder, naming the role
\* and the checklist, to every user with an assignment whose per-user setting
\* is not switched off, and none to any other user.
C14_ReminderDispatch ==
    [][(/\ last'.handler = "send_notifications"
        /\ notification_settings.enabled
        /\ last'.arg = notification_settings.reminder_time)
       => \A u \in Users :
            IF u \in ReminderDue
            THEN /\ Cardinality(Reminders(u)) = 1
                 /\ \A i \in Reminders(u) :
                        /\ outbox'[i].role = user_assignments[Str(u)].role
                        /\ outbox'[i].checklist = user_assignments[Str(u)].checklist
            ELSE Reminders(u) = {}
      ]_vars

(***************************************************************************)
(* SpecRotate: an administrator generates passwords while users            *)
(* authenticate, give their name and walk a checklist.                     *)
(***************************************************************************)
\* Values of generate_password(): ten characters of its alphabet.
GeneratedPasswords == {"Xk3!aB9$qZ", "m2@Lp8&Wc5"}

\* What the users type, as a password or as a name.
RotateTexts == {"default_password"} \cup GeneratedPasswords

RotateInit ==
    InitWith("3" :> [role |-> "Bartender", checklist |-> "Closing"], Empty)

RotatePress ==
    \E new_password \in GeneratedPasswords :
        AdminCallbackHandler(Editor, "gen_pass_confirm", None, new_password)

RotateStart == \E u \in {3, 4} : StartHandler(u)

RotateText == \E u \in {3, 4}, text \in RotateTexts : MessageHandler(u, text)

RotateWalk == \E r \in Outcomes : CallbackHandler(Walker, "task", r, {})

RotateNext == RotatePress \/ RotateStart \/ RotateText \/ RotateWalk

SpecRotate == RotateInit /\ [][RotateNext]_vars

(***************************************************************************)
(* Claims settled under SpecRotate.                                        *)
(***************************************************************************)
\* A text from a user who holds no session and is in no admin text state.
GateText(u) ==
    /\ last'.handler = "message_handler" /\ last'.user = u
    /\ u \notin DOMAIN user_sessions
    /\ fsm_state[u] \notin TextStates

\* C15: after a password generation, a user with no session who sends the
\* password the generation replaced stays without a session, and one who
\* sends the new password gets a session in the name step.
C15_RotationAtTheGate ==
    [][\A u \in Users :
        (GateText(u) /\ old_password # None /\ old_password # BOT_PASSWORD)
        => /\ last'.arg = old_password => u \notin DOMAIN user_sessions'
           /\ last'.arg = BOT_PASSWORD
                => (u \in DOMAIN user_sessions' /\ user_sessions'[u].step = "name")
      ]_vars

\* A user without a session has just been refused the replaced password.
C15_OldPasswordRefused ==
    /\ last.handler = "message_handler"
    /\ old_password \notin {None, BOT_PASSWORD}
    /\ last.arg = old_password
    /\ last.user \notin DOMAIN user_sessions
    /\ [to |-> last.user, msg |-> "incorrect_password"] \in {outbox[i] : i \in DOMAIN outbox}

\* C17: the first interaction of a user who holds a session, right after a
\* password generation, is not accepted: it neither advances nor completes
\* the session, and records no name and no report.
C17_RotationInvalidatesSessions ==
    [][\A u \in DOMAIN user_sessions :
        (/\ last.handler = "admin_callback_handler" /\ last.cmd = "gen_pass_confirm"
         /\ old_password # BOT_PASSWORD
         /\ last'.user = u
         /\ last'.handler \in {"message_handler", "callback_handler"})
        => /\ u \in DOMAIN user_sessions' => user_sessions'[u] = user_sessions[u]
           /\ user_data' = user_data
           /\ reports' = reports
           /\ [to |-> u, msg |-> "task_prompt"] \notin {outbox'[i] : i \in DOMAIN outbox'}
      ]_vars

\* C18: a text equal to the current password from a user with no session
\* creates a session in the name step; any other text leaves the user without
\* a session and changes no store.
C18_AuthenticationGate ==
    [][\A u \in Users :
        GateText(u)
        => IF last'.arg = BOT_PASSWORD
           THEN /\ u \in DOMAIN user_sessions'
                /\ user_sessions'[u].step = "name"
           ELSE /\ user_sessions' = user_sessions
                /\ <<checklists', lists', user_assignments', user_data',
                     notification_settings', disk', reports', BOT_PASSWORD'>>
                   = <<checklists, lists, user_assignments, user_data,
                       notification_settings, disk, reports, BOT_PASSWORD>>
      ]_vars

\* A user without a session has just been refused a text, another user's
\* name being on record.
C18_Refused ==
    /\ last.handler = "message_handler"
    /\ last.arg # BOT_PASSWORD
    /\ last.user \notin DOMAIN user_sessions
    /\ user_data # Empty
    /\ [to |-> last.user, msg |-> "incorrect_password"] \in {outbox[i] : i \in DOMAIN outbox}

(***************************************************************************)
(* SpecRestart: the process is stopped and started again between           *)
(* password generations and authentications.                               *)
(***************************************************************************)
\* os.getenv("BOT_PASSWORD", "default_password"): the environment of the
\* deployment, the same at every start of the process.
EnvPassword == "default_password"

\* json.load builds a new list object for every checklist of the document.
RoleSlot == ("Bartender" :> 0) @@ ("Cashier" :> 1)
NameSlot == ("Opening" :> 1) @@ ("Closing" :> 2) @@ ("Closing:Bar" :> 3)
LoadedRef(role, cl_name) == RoleSlot[role] * Cardinality(ChecklistNames) + NameSlot[cl_name]

\* The module level of bot.py, run again over the files the last run left:
\* the configuration is read from the environment, the four documents are
\* loaded, user_sessions and the MemoryStorage start empty.
module_level(s) ==
    LET document == s.disk.checklists
    IN  [s EXCEPT
            !.BOT_PASSWORD = EnvPassword,
            !.checklists = [r \in DOMAIN document |->
                               [c \in DOMAIN document[r] |-> LoadedRef(r, c)]],
            !.lists = [i \in {LoadedRef(r, c) : r \in DOMAIN document, c \in ChecklistNames}
                               \cap UNION {{LoadedRef(r, c) : c \in DOMAIN document[r]} :
                                              r \in DOMAIN document}
                           |-> LET rc == CHOOSE rc \in (DOMAIN document) \X ChecklistNames :
                                            /\ rc[2] \in DOMAIN document[rc[1]]
                                            /\ LoadedRef(rc[1], rc[2]) = i
                               IN  document[rc[1]][rc[2]]],
            !.user_assignments = s.disk.user_assignments,
            !.user_data = s.disk.user_data,
            !.notification_settings = s.disk.notification_settings,
            !.user_sessions = Empty,
            !.fsm_state = [u \in Users |-> None],
            !.fsm_data = [u \in Users |-> NoData]]

Restart ==
    Apply(module_level(Cur),
          [handler |-> "restart", user |-> NoUser, cmd |-> None, arg |-> None,
           state |-> None, down |-> {}, exc |-> FALSE])

RestartPress ==
    \E new_password \in GeneratedPasswords :
        AdminCallbackHandler(Editor, "gen_pass_confirm", None, new_password)

RestartText == \E u \in {3, 4}, text \in RotateTexts : MessageHandler(u, text)

RestartNext == Restart \/ RestartPress \/ RestartText

SpecRestart == RotateInit /\ [][RestartNext]_vars

(***************************************************************************)
(* Claims settled under SpecRestart.                                       *)
(***************************************************************************)
\* C16: a restart keeps the generated password: after it the password in
\* force is the one that was in force before it, so the generated password
\* is still accepted and the password it replaced still refused.
C16_GeneratedPasswordSurvivesRestart ==
    [][last'.handler = "restart" => BOT_PASSWORD' = BOT_PASSWORD]_vars

(***************************************************************************)
(* Claims settled under SpecSnapshot, the name entry.                      *)
(***************************************************************************)
\* A text from u while u's session is in the name step.
NameEntry(u) ==
    /\ last'.handler = "message_handler" /\ last'.user = u
    /\ fsm_state[u] \notin TextStates
    /\ u \in DOMAIN user_sessions /\ user_sessions[u].step = "name"

ValidAssignment(u) ==
    /\ Str(u) \in DOMAIN user_assignments
    /\ HasChecklist(Cur, user_assignments[Str(u)].role, user_assignments[Str(u)].checklist)

\* C19: a name entry by a user whose assignment names a role and a checklist
\* of the catalog puts the session in the task step at task 0 of exactly that
\* role and checklist, with empty results, and prompts the first task.
C19_NameEntryStartsWalk ==
    [][\A u \in Users :
        (NameEntry(u) /\ ValidAssignment(u))
        => /\ user_sessions'[u].step = "task"
           /\ user_sessions'[u].current_task = 0
           /\ user_sessions'[u].role = user_assignments[Str(u)].role
           /\ user_sessions'[u].checklist = user_assignments[Str(u)].checklist
           /\ user_sessions'[u].results = <<>>
           /\ [to |-> u, msg |-> "task_prompt"] \in {outbox'[i] : i \in DOMAIN outbox'}
      ]_vars

(***************************************************************************)
(* SpecDangling: a user gives a name while one administrator assigns       *)
(* checklists and another deletes them.                                    *)
(***************************************************************************)
DanglingButtons ==
    {<<"assign_user:", Walker>>, <<"assign_role:", "Bartender">>}
        \cup {<<"assign_checklist:", cl>> : cl \in keyboard[Assigner]}

DanglingKeeperButtons ==
    {<<"admin_role:", "Bartender">>, <<"delete_cl:", "Opening">>,
     <<"confirm_delete_cl:", "Opening">>}

DanglingAssign ==
    \E b \in DanglingButtons : AdminCallbackHandler(Assigner, b[1], b[2], None)
DanglingDelete ==
    \E b \in DanglingKeeperButtons : AdminCallbackHandler(Keeper, b[1], b[2], None)
DanglingStart == StartHandler(Walker)
DanglingText == \E text \in TextInputs(Walker) : MessageHandler(Walker, text)
DanglingPress == \E r \in Outcomes : CallbackHandler(Walker, "task", r, {})

DanglingNext ==
    DanglingAssign \/ DanglingDelete \/ DanglingStart \/ DanglingText \/ DanglingPress

SpecDangling == SnapshotInit /\ [][DanglingNext]_vars

(***************************************************************************)
(* Claims settled under SpecDangling.                                      *)
(***************************************************************************)
\* C20: a name entry by a user who has no assignment, or whose assignment
\* names a role or a checklist the catalog no longer holds, starts no walk and
\* raises no exception; the user is told that no checklist is available; and
\* no press of a user who is in no walk produces a report.
C20_DanglingAssignmentTolerated ==
    [][\A u \in Users :
        /\ (NameEntry(u) /\ ~ValidAssignment(u))
            => /\ user_sessions'[u].step = "name"
               /\ ~last'.exc
               /\ \E i \in DOMAIN outbox' :
                    /\ outbox'[i].to = u
                    /\ outbox'[i].msg \in {"assigned_checklist_unavailable",
                                          "no_assigned_checklist"}
               /\ reports' = reports
        /\ (last'.handler = "callback_handler" /\ last'.user = u /\ ~InTaskStep(Cur, u))
            => reports' = reports
      ]_vars

\* A user whose assignment names a deleted checklist has just given a name.
C20_DanglingRefused ==
    /\ last.handler = "message_handler"
    /\ last.user \in DOMAIN user_sessions
    /\ user_sessions[last.user].step = "name"
    /\ user_sessions[last.user].name = last.arg
    /\ Str(last.user) \in DOMAIN user_assignments
    /\ ~HasChecklist(Cur, user_assignments[Str(last.user)].role,
                     user_assignments[Str(last.user)].checklist)
    /\ [to |-> last.user, msg |-> "assigned_checklist_unavailable"]
           \in {outbox[i] : i \in DOMAIN outbox}

(***************************************************************************)
(* SpecExpired: a user presses the buttons of old task prompts after       *)
(* completing the walk, after /start and after a restart of the process.   *)
(***************************************************************************)
ExpiredStart == StartHandler(Walker)
ExpiredText == \E text \in TextInputs(Walker) : MessageHandler(Walker, text)
ExpiredPress == \E r \in Outcomes : CallbackHandler(Walker, "task", r, {})
ExpiredNext == ExpiredStart \/ ExpiredText \/ ExpiredPress \/ Restart \/ Tick

SpecExpired == RotateInit /\ [][ExpiredNext]_vars

(***************************************************************************)
(* Claims settled under SpecExpired.                                       *)
(***************************************************************************)
\* A task press by u while u holds no session in the task step.
ExpiredPressBy(u) ==
    /\ last'.handler = "callback_handler" /\ last'.cmd = "task" /\ last'.user = u
    /\ ~InTaskStep(Cur, u)

\* C21: a task press from a user with no session, or whose session is not in
\* the task step, creates no session, records no result, writes no report,
\* raises no exception, and is answered with the prompt to restart.
C21_ExpiredSession ==
    [][\A u \in Users :
        ExpiredPressBy(u)
        => /\ user_sessions' = user_sessions
           /\ reports' = reports
           /\ ~last'.exc
           /\ outbox' = <<[to |-> u, msg |-> "session_expired"]>>
      ]_vars

\* The user pressed a button of an old prompt after the walk was completed.
C21_PressedAfterCompletion ==
    /\ last.handler = "callback_handler" /\ last.cmd = "task"
    /\ last.user \notin DOMAIN user_sessions
    /\ reports # Empty
    /\ outbox = <<[to |-> last.user, msg |-> "session_expired"]>>

(***************************************************************************)
(* Claims settled under SpecRotate, the name entry.                        *)
(***************************************************************************)
\* C22: self-service mode. A user who enters a name and has no assignment is
\* offered the picker of the catalog's roles (and from it reaches a walk of
\* the picked checklist): the name entry is answered with the role picker.
C22_SelfServicePicker ==
    [][\A u \in Users :
        (NameEntry(u) /\ Str(u) \notin DOMAIN user_assignments)
        => [to |-> u, msg |-> "role_picker"] \in {outbox'[i] : i \in DOMAIN outbox'}
      ]_vars

(***************************************************************************)
(* Claims settled under SpecSnapshot, the failures.                        *)
(***************************************************************************)
\* The notices that report a validation error or a caught exception.
ErrorNotices ==
    {"task_not_found", "role_not_selected", "admin_operation_error",
     "task_index_out_of_range", "missing_data_for_task_update",
     "role_or_checklist_not_found", "checklist_not_found", "incorrect_password",
     "processing_error", "error_loading_tasks", "error_processing_message",
     "message_processing_error"}

EndsInError(u) ==
    /\ last'.user = u
    /\ \/ last'.exc
       \/ \E i \in DOMAIN outbox' : outbox'[i].to = u /\ outbox'[i].msg \in ErrorNotices

\* C23: after an event whose handling ends in an error, the sender's admin
\* state is the one before the event or none, and the sender's session is the
\* one before the event or none.
C23_FailureKeepsState ==
    [][\A u \in Users :
        EndsInError(u)
        => /\ fsm_state'[u] \in {fsm_state[u], None}
           /\ \/ u \notin DOMAIN user_sessions'
              \/ (u \in DOMAIN user_sessions /\ user_sessions'[u] = user_sessions[u])
      ]_vars

(***************************************************************************)
(* SpecFlags: a static administrator and a user authenticate, give their   *)
(* names, add users by id and press the make_admin and remove_admin        *)
(* buttons.                                                                *)
(***************************************************************************)
FlagsInit == InitWith(Empty, Empty)

FlagsButtons ==
    {<<"add_user_by_id", None>>}
        \cup {<<c, k>> : c \in {"make_admin:", "remove_admin:"}, k \in {"2", "3"}}

FlagsPress ==
    \E u \in {2, 3}, b \in FlagsButtons : AdminCallbackHandler(u, b[1], b[2], None)

FlagsText == \E u \in {2, 3} : \E text \in TextInputs(u) : MessageHandler(u, text)

FlagsNext == FlagsPress \/ FlagsText

SpecFlags == FlagsInit /\ [][FlagsNext]_vars

(***************************************************************************)
(* Claims settled under SpecFlags.                                         *)
(***************************************************************************)
\* C24: every identity of the static allowlist is an administrator in every
\* reachable state, whatever its stored flag, also after a remove_admin that
\* targets it, and nothing it sends is answered with a denial.
C24_AllowlistOverride ==
    \A u \in StaticAdmins :
        /\ is_admin(Cur, u)
        /\ last.user = u => \A i \in DOMAIN outbox : outbox[i].msg \notin Denials

\* A remove_admin has just been handled for the record of a static
\* administrator, whose flag is off.
C24_StaticAdminUnflagged ==
    /\ last.handler = "admin_callback_handler" /\ last.cmd = "remove_admin:"
    /\ ToInt(last.arg) \in StaticAdmins
    /\ last.arg \in DOMAIN user_data /\ ~user_data[last.arg].is_admin
    /\ [to |-> last.user, msg |-> "admin_flag_changed"] \in {outbox[i] : i \in DOMAIN outbox}

\* C25: the stored flag of a record changes only in a make_admin or
\* remove_admin for that record, handled for a sender who is an administrator
\* at that time; a record is created with the flag off and none is removed.
C25_FlagChangesOnlyByAdmin ==
    [][/\ \A k \in DOMAIN user_data :
            /\ k \in DOMAIN user_data'
            /\ user_data'[k].is_admin # user_data[k].is_admin
                => /\ last'.handler = "admin_callback_handler"
                   /\ last'.cmd \in {"make_admin:", "remove_admin:"}
                   /\ last'.arg = k
                   /\ is_admin(Cur, last'.user)
       /\ \A k \in DOMAIN user_data' \ DOMAIN user_data : ~user_data'[k].is_admin
      ]_vars

\* A record that name entry created has been flagged by an administrator and
\* its owner has given a name again.
C25_FlagKeptByNameEntry ==
    /\ last.handler = "message_handler" /\ last.user = 3
    /\ 3 \in DOMAIN user_sessions /\ user_sessions[3].name = last.arg
    /\ "3" \in DOMAIN user_data /\ user_data["3"].is_admin

(***************************************************************************)
(* Claims settled under SpecWalk, the acknowledgement.                     *)
(***************************************************************************)
\* C26: the response that completes a run is answered with the 'completed'
\* acknowledgement and discards the session, whichever sends of the report
\* to administrators fail; a later task press of that user is answered as
\* expired.
C26_CompletionAcknowledged ==
    [][\A u \in Users :
        /\ CompletingPress(u)
            => /\ [to |-> u, msg |-> "completed"] \in {outbox'[i] : i \in DOMAIN outbox'}
               /\ u \notin DOMAIN user_sessions'
        /\ ExpiredPressBy(u)
            => /\ outbox' = <<[to |-> u, msg |-> "session_expired"]>>
               /\ user_sessions' = user_sessions
      ]_vars

\* A run has just been completed while the sends to a static administrator
\* failed.
C26_CompletedWhileSendsFail ==
    /\ last.handler = "callback_handler"
    /\ last.down \cap StaticAdmins # {}
    /\ last.user \notin DOMAIN user_sessions
    /\ [to |-> last.user, msg |-> "completed"] \in {outbox[i] : i \in DOMAIN outbox}
    /\ [to |-> last.user, msg |-> "failed_to_send_report"] \in {outbox[i] : i \in DOMAIN outbox}

(***************************************************************************)
(* SpecRoles: an administrator adds checklists under a role the catalog    *)
(* holds and under one it does not, and deletes a role's only checklist.   *)
(***************************************************************************)
\* A role name the catalog does not hold.
NewRole == "Waiter"

RolesButtons ==
    {<<"admin_role:", r>> : r \in {"Cashier", NewRole}}
        \cup {<<"add_checklist", None>>, <<"delete_cl:", "Opening">>,
              <<"confirm_delete_cl:", "Opening">>}

RolesPress == \E b \in RolesButtons : AdminCallbackHandler(Editor, b[1], b[2], None)

RolesText ==
    /\ fsm_state[Editor] \in TextStates
    /\ \E text \in TextInputs(Editor) : MessageHandler(Editor, text)

RolesNext == RolesPress \/ RolesText

SpecRoles == SnapshotInit /\ [][RolesNext]_vars

(***************************************************************************)
(* Claims settled under SpecRoles.                                         *)
(***************************************************************************)
\* C27: the name of a new checklist, given while the selected role is not in
\* the catalog, creates the role with that one, empty, checklist; and the
\* deletion of a checklist removes no role, also when it was the role's last.
C27_ImplicitRoleCreation ==
    [][LET u == last'.user
           role == fsm_data[u].role
       IN  /\ (/\ last'.handler = "message_handler"
               /\ fsm_state[u] = "NEW_CHECKLIST"
               /\ Truthy(role) /\ role \notin DOMAIN checklists)
              => /\ role \in DOMAIN checklists'
                 /\ DOMAIN checklists'[role] = {last'.arg}
                 /\ lists'[checklists'[role][last'.arg]] = <<>>
           /\ (last'.handler = "admin_callback_handler" /\ last'.cmd = "confirm_delete_cl:")
              => DOMAIN checklists' = DOMAIN checklists
      ]_vars

(***************************************************************************)
(* SpecTasks: an administrator adds tasks to and deletes tasks from the    *)
(* checklists of a role.                                                   *)
(***************************************************************************)
TasksButtons ==
    {<<"admin_role:", "Bartender">>, <<"add_task", None>>}
        \cup {<<"cl:", cl>> : cl \in {"Opening", "Closing"}}
        \cup {<<c, i>> : c \in {"delete_task:", "confirm_delete_task:"},
                         i \in 0..(MaxTasks - 1)}

TasksPress == \E b \in TasksButtons : AdminCallbackHandler(Editor, b[1], b[2], None)

TasksText ==
    /\ fsm_state[Editor] \in TextStates
    /\ \E text \in TextInputs(Editor) : MessageHandler(Editor, text)

TasksNext == TasksPress \/ TasksText

SpecTasks == SnapshotInit /\ [][TasksNext]_vars

(***************************************************************************)
(* Claims settled under SpecTasks.                                         *)
(***************************************************************************)
\* The checklist the sender's conversation has under edit is in the catalog.
UnderEdit(u) ==
    /\ Truthy(fsm_data[u].role) /\ Truthy(fsm_data[u].checklist)
    /\ HasChecklist(Cur, fsm_data[u].role, fsm_data[u].checklist)

\* C28: a task text given for a checklist under edit becomes its last task:
\* the checklist is the one before with the text appended, and no other
\* checklist changes.
C28_AddTaskAppends ==
    [][LET u == last'.user IN
        (last'.handler = "message_handler" /\ fsm_state[u] = "ADD_TASK" /\ UnderEdit(u))
        => /\ ~last'.exc
           /\ CatalogAfter =
                [Catalog EXCEPT ![fsm_data[u].role][fsm_data[u].checklist] =
                                    Append(@, last'.arg)]
      ]_vars

\* A task has just been added after the tasks the checklist already had.
C28_TaskAdded ==
    /\ last.handler = "message_handler" /\ last.state = "ADD_TASK"
    /\ [to |-> last.user, msg |-> "task_added"] \in {outbox[i] : i \in DOMAIN outbox}
    /\ \E r \in DOMAIN checklists : \E c \in DOMAIN checklists[r] :
        /\ Len(lists[checklists[r][c]]) >= 2
        /\ lists[checklists[r][c]][Len(lists[checklists[r][c]])] = last.arg
        /\ lists[checklists[r][c]][1] # last.arg

\* C29: the confirmed deletion of task i from a checklist of n tasks,
\* 0 <= i < n, leaves n - 1 tasks: those below i where they were, each one
\* above i one index lower; no other checklist changes.
C29_DeleteTaskShifts ==
    [][LET u == last'.user
           i == last'.arg
       IN  (/\ last'.handler = "admin_callback_handler"
            /\ last'.cmd = "confirm_delete_task:"
            /\ is_admin(Cur, u) /\ UnderEdit(u)
            /\ 0 <= i /\ i < Len(Catalog[fsm_data[u].role][fsm_data[u].checklist]))
           => LET role == fsm_data[u].role
                  cl_name == fsm_data[u].checklist
                  before == Catalog[role][cl_name]
                  after == CatalogAfter[role][cl_name]
              IN  /\ Len(after) = Len(before) - 1
                  /\ \A j \in 0..(Len(before) - 1) :
                        /\ j < i => after[j + 1] = before[j + 1]
                        /\ j > i => after[j] = before[j + 1]
                  /\ CatalogAfter = [Catalog EXCEPT ![role][cl_name] = after]
      ]_vars

\* The first of two or more tasks has just been deleted: the task that
\* followed it is now the first.
C29_FirstTaskDeleted ==
    /\ last.handler = "admin_callback_handler" /\ last.cmd = "confirm_delete_task:"
    /\ last.arg = 0
    /\ [to |-> last.user, msg |-> "task_deleted"] \in {outbox[i] : i \in DOMAIN outbox}
    /\ lists[checklists["Bartender"]["Closing"]] = <<"lock">>

(***************************************************************************)
(* SpecStats: a user completes runs, report files get damaged on disk, and *)
(* an administrator asks for the completion statistics.                    *)
(***************************************************************************)
\* What happens to a report file outside the program: it is truncated (no
\* JSON document any more), it loses the role field, or an entry of its
\* results loses its status.
Damages == {"truncated", "no_role", "bad_entry"}

Damaged(report, damage) ==
    CASE damage = "truncated" ->
            [report EXCEPT !.user_name = None, !.role = None, !.checklist = None,
                           !.results = <<>>]
      [] damage = "no_role" -> [report EXCEPT !.role = None]
      [] damage = "bad_entry" ->
            [report EXCEPT !.results = [i \in DOMAIN @ |->
                                           IF i = Len(@) THEN <<@[i][1]>> ELSE @[i]]]

\* A well-formed report: every field there, every entry a pair.
WellFormed(report) ==
    /\ report.role # None /\ report.checklist # None /\ report.user_name # None
    /\ Unpacks(report.results)

Damage ==
    \E name \in DOMAIN reports, damage \in Damages :
        /\ WellFormed(reports[name])
        /\ reports' = [reports EXCEPT ![name] = Damaged(@, damage)]
        /\ outbox' = <<>>
        /\ last' = [handler |-> "disk", user |-> NoUser, cmd |-> damage, arg |-> None,
                    state |-> None, down |-> {}, exc |-> FALSE]
        /\ UNCHANGED <<checklists, lists, user_assignments, user_data,
                       notification_settings, user_sessions, fsm_state, fsm_data,
                       BOT_PASSWORD, disk, now, prompted, keyboard, confirmations,
                       old_password, walk_start>>

StatsPress == AdminCallbackHandler(Editor, "completion_stats", None, None)

StatsWalk == \E r \in Outcomes : CallbackHandler(Walker, "task", r, {})

StatsNext == WalkerStart \/ WalkerText \/ StatsWalk \/ Tick \/ Damage \/ StatsPress

SpecStats == RotateInit /\ [][StatsNext]_vars

(***************************************************************************)
(* Claims settled under SpecStats.                                         *)
(***************************************************************************)
RECURSIVE SumOfTotals(_)
SumOfTotals(by) ==
    IF DOMAIN by = {} THEN 0
    ELSE LET key == CHOOSE key \in DOMAIN by : TRUE
         IN  by[key].total + SumOfTotals([k \in DOMAIN by \ {key} |-> by[k]])

RECURSIVE SumOfTasks(_, _)
SumOfTasks(files, names) ==
    IF names = {} THEN 0
    ELSE LET name == CHOOSE name \in names : TRUE
         IN  Len(files[name].results) + SumOfTasks(files, names \ {name})

\* C30: the completion statistics count every well-formed report and nothing
\* of any other: total_checklists is the number of well-formed reports,
\* total_tasks the number of their results, and total_checklists is the sum
\* of the by_role totals and the sum of the by_checklist totals.
C30_CorruptReportsSkipped ==
    [][\A i \in DOMAIN outbox' :
        outbox'[i].msg = "completion_stats"
        => LET stats == outbox'[i].stats
               good == {name \in DOMAIN reports : WellFormed(reports[name])}
           IN  /\ stats.total_checklists = Cardinality(good)
               /\ stats.total_tasks = SumOfTasks(reports, good)
               /\ stats.total_checklists = SumOfTotals(stats.by_role)
               /\ stats.total_checklists = SumOfTotals(stats.by_checklist)
      ]_vars

(***************************************************************************)
(* One administrator changing all four stores, and restarts of the process *)
(* in between.                                                             *)
(***************************************************************************)
PersistButtons ==
    {<<"admin_role:", "Bartender">>, <<"cl:", "Closing">>, <<"add_task", None>>,
     <<"rename_checklist", None>>, <<"confirm_delete_task:", 0>>,
     <<"remove_assignment:", Str(Walker)>>,
     <<"add_user_by_id", None>>, <<"make_admin:", Str(Walker)>>,
     <<"toggle_user_notification:", Str(Walker)>>}

PersistPress ==
    \E b \in PersistButtons : AdminCallbackHandler(Editor, b[1], b[2], None)

PersistText ==
    /\ fsm_state[Editor] \in TextStates
    /\ \E text \in TextInputs(Editor) : MessageHandler(Editor, text)

PersistNext == PersistPress \/ PersistText \/ Restart

SpecPersist == RotateInit /\ [][PersistNext]_vars

\* C31: at the end of every handled event each of the four persisted
\* documents equals the in-memory store, so the module level run again at
\* that point loads the same catalog, assignments, registry and settings.
C31_SavedAfterEveryMutation ==
    /\ disk.checklists = Deref(Cur)
    /\ disk.user_assignments = user_assignments
    /\ disk.user_data = user_data
    /\ disk.notification_settings = notification_settings
    /\ LET reloaded == module_level(Cur)
       IN  /\ Deref(reloaded) = Deref(Cur)
           /\ reloaded.user_assignments = user_assignments
           /\ reloaded.user_data = user_data
           /\ reloaded.notification_settings = notification_settings

\* An event has just changed a store, and all four stores differ from what the
\* process started with.
C31_AllStoresChanged ==
    /\ last.handler \in {"message_handler", "admin_callback_handler"}
    /\ Deref(Cur)["Bartender"] # [c \in DOMAIN DefaultChecklists["Bartender"] |->
                                     DefaultLists[DefaultChecklists["Bartender"][c]]]
    /\ Str(Walker) \notin DOMAIN user_assignments
    /\ Str(Walker) \in DOMAIN user_data
    /\ notification_settings # DefaultNotificationSettings

(***************************************************************************)
(* Two users assigned the same checklist, each going through the user flow *)
(* in any interleaving with the other.                                     *)
(***************************************************************************)
Owners == {Walker, Outsider}

OwnersInit ==
    InitWith((Str(Walker) :> [role |-> "Bartender", checklist |-> "Closing"])
                 @@ (Str(Outsider) :> [role |-> "Bartender", checklist |-> "Closing"]),
             Empty)

OwnersStart == \E u \in Owners : StartHandler(u)

OwnersText == \E u \in Owners, text \in {"default_password", "Alice"} : MessageHandler(u, text)

OwnersPress == \E u \in Owners, r \in Outcomes : CallbackHandler(u, "task", r, {})

OwnersNext == OwnersStart \/ OwnersText \/ OwnersPress

SpecOwners == OwnersInit /\ [][OwnersNext]_vars

\* user_sessions.get(user_id), with the task list the session refers to
SessionOf(u) ==
    IF u \in DOMAIN user_sessions
    THEN {<<user_sessions[u],
            IF user_sessions[u].tasks \in DOMAIN lists
            THEN lists[user_sessions[u].tasks] ELSE <<>> >>}
    ELSE {}

\* C32: a user-flow event of user A (/start, a text, a task button, with the
\* completion it may lead to) leaves the session of every other user B as it
\* was: not created, not deleted, no field and no task of it changed.
C32_SessionOwnership ==
    [][\A b \in Users :
          (/\ last'.handler \in {"start_handler", "message_handler", "callback_handler"}
           /\ last'.user # b)
              => SessionOf(b)' = SessionOf(b)]_vars

\* One user has just completed the checklist while the other is in the middle
\* of the same checklist.
C32_CompletedBesideOpenSession ==
    /\ last.handler = "callback_handler" /\ last.user = Walker
    /\ Walker \notin DOMAIN user_sessions
    /\ \E k \in DOMAIN reports : k[2] = Walker
    /\ InTaskStep(Cur, Outsider)
    /\ Len(user_sessions[Outsider].results) = 1

(***************************************************************************)
(* One user walking a checklist and pressing the buttons of any task       *)
(* prompt the chat holds.  send_task never removes the keyboard of a       *)
(* prompt, and both buttons carry only "task:<result>", so the chat keeps  *)
(* a pressable prompt for every task shown so far in this run and for      *)
(* every task of a run completed before.  The step records the prompt the  *)
(* press was made on.                                                      *)
(***************************************************************************)
PromptsInChat(u) ==
    {<<"current", k>> : k \in IF InTaskStep(Cur, u)
                              THEN 0..user_sessions[u].current_task ELSE {}}
        \cup {<<"earlier", k>> : k \in UNION {0..(Len(reports[key].results) - 1) :
                                                 key \in {key \in DOMAIN reports : key[2] = u}}}

PromptPress ==
    \E p \in PromptsInChat(Walker), r \in Outcomes :
        /\ Walker \in prompted
        /\ Apply(callback_handler(Cur, Walker, "task", r, {}),
                 Event("callback_handler", Walker, "task", r) @@ [prompt |-> p])

PromptsNext == WalkerStart \/ WalkerText \/ PromptPress \/ Tick

SpecPrompts == RotateInit /\ [][PromptsNext]_vars

\* C33: every outcome the session records comes from a press on the prompt
\* of that task in the current run: a press that appends results[k] was made
\* on the prompt that displayed task k of this run.
C33_OutcomeBelongsToPrompt ==
    [][(/\ last'.handler = "callback_handler" /\ last'.cmd = "task"
        /\ InTaskStep(Cur, last'.user))
           => last'.prompt = <<"current", user_sessions[last'.user].current_task>>]_vars

(***************************************************************************)
(* A run under the conditions of the liveness claim: the user never sends  *)
(* /start and keeps answering (weak fairness of the press, which is        *)
(* enabled whenever the chat holds a prompt), while an administrator may   *)
(* delete tasks of the catalog at any moment.  The process is not          *)
(* restarted.                                                              *)
(***************************************************************************)
LiveButtons ==
    {<<"admin_role:", "Bartender">>, <<"cl:", "Opening">>, <<"cl:", "Closing">>,
     <<"confirm_delete_task:", 0>>}

\* The event keeps the callback data as the text it is.
LiveEdit ==
    \E b \in LiveButtons :
        Apply(admin_callback_handler(Cur, Editor, b[1], b[2], None),
              Event("admin_callback_handler", Editor, b[1],
                    IF b[1] = "confirm_delete_task:" THEN "0" ELSE b[2]))

LivePress == \E r \in Outcomes : CallbackHandler(Walker, "task", r, {})

LiveNext == WalkerText \/ LivePress \/ LiveEdit

SpecLive == SnapshotInit /\ [][LiveNext]_vars /\ WF_vars(LivePress)

\* C34: every session that enters the task step is eventually completed: its
\* report is written and the session discarded.
C34_RunLiveness ==
    InTaskStep(Cur, Walker)
        ~> (Walker \notin DOMAIN user_sessions /\ \E key \in DOMAIN reports : key[2] = Walker)

(***************************************************************************)
(* Two administrators editing the same checklist: each opens confirmation  *)
(* prompts for its tasks and presses "Yes, delete" on a prompt of its own  *)
(* chat.  The step records the task text the pressed prompt shows.         *)
(***************************************************************************)
DeleterButtons ==
    {<<"admin_role:", "Bartender">>, <<"cl:", "Closing">>}
        \cup {<<"delete_task:", i>> : i \in 0..(MaxTasks - 1)}

DeleterPress ==
    \E u \in {Editor, Keeper}, b \in DeleterButtons :
        AdminCallbackHandler(u, b[1], b[2], None)

DeleterYes ==
    \E u \in {Editor, Keeper} :
        \E b \in {b \in confirmations[u] : b[1] = "confirm_delete_task:"} :
            Apply(admin_callback_handler(Cur, u, b[1], b[2], None),
                  Event("admin_callback_handler", u, b[1], b[2]) @@ [shown |-> b[3]])

DeleterNext == DeleterPress \/ DeleterYes

SpecDeleter == RotateInit /\ [][DeleterNext]_vars

\* C35: a confirmed DeleteTask removes the task whose text the confirmation
\* prompt showed: whenever a press of "Yes, delete" removes a task from the
\* checklist under edit, the task removed is the one shown in that prompt.
C35_DeletesTheTaskShown ==
    [][(/\ last'.handler = "admin_callback_handler"
        /\ last'.cmd = "confirm_delete_task:"
        /\ CatalogAfter # Catalog)
           => LET data == fsm_data[last'.user]
              IN  TasksOf(Cur, data.role, data.checklist)[last'.arg + 1] = last'.shown]_vars

(***************************************************************************)
(* Claims settled under SpecCatalog: renaming onto an existing name.       *)
(***************************************************************************)
\* C36: a rename never destroys another checklist: a text handled in the
\* RENAME_CHECKLIST state leaves every role with as many checklists as it
\* had before.
C36_RenameKeepsChecklistCount ==
    [][(/\ last'.handler = "message_handler"
        /\ last'.state = "RENAME_CHECKLIST")
           => \A r \in DOMAIN Catalog :
                  /\ r \in DOMAIN CatalogAfter
                  /\ Cardinality(DOMAIN CatalogAfter[r]) = Cardinality(DOMAIN Catalog[r])]_vars

(***************************************************************************)
(* An administrator who opens a text-entry conversation, sends /start in   *)
(* the middle of it, and then sends a text.                                *)
(***************************************************************************)
StartOverButtons ==
    {<<"admin_role:", "Bartender">>, <<"cl:", "Closing">>, <<"add_task", None>>,
     <<"edit_task:", 0>>, <<"add_user_by_id", None>>, <<"set_reminder_time", None>>}

StartOverPress ==
    \E b \in StartOverButtons : AdminCallbackHandler(Editor, b[1], b[2], None)

StartOverStart == StartHandler(Editor)

StartOverText == \E text \in TextInputs(Editor) : MessageHandler(Editor, text)

StartOverNext == StartOverPress \/ StartOverStart \/ StartOverText

SpecStartOver == RotateInit /\ [][StartOverNext]_vars

\* C37: /start is a full restart: the text a user sends right after /start
\* changes neither the catalog, nor the assignments, nor the user registry,
\* nor the notification settings, whatever conversation the user was in.
C37_StartIsFullRestart ==
    [][(/\ last.handler = "start_handler"
        /\ last'.handler = "message_handler"
        /\ last'.user = last.user)
           => /\ CatalogAfter = Catalog
              /\ user_assignments' = user_assignments
              /\ user_data' = user_data
              /\ notification_settings' = notification_settings]_vars

(***************************************************************************)
(* An identity that is not in ADMIN_IDS and whose record never holds the   *)
(* administrator flag, sending everything a chat can send: /start, texts,  *)
(* task presses, every admin command and admin buttons (to either callback *)
(* handler), while an administrator registers another user.                *)
(***************************************************************************)
OutsiderInit ==
    InitWith(Str(Outsider) :> [role |-> "Bartender", checklist |-> "Closing"], Empty)

OutsiderButtons ==
    {<<"add_task", None>>, <<"confirm_delete_task:", 0>>,
     <<"remove_assignment:", Str(Outsider)>>, <<"make_admin:", Str(Outsider)>>,
     <<"toggle_user_notification:", Str(Outsider)>>, <<"clear_reports", None>>,
     <<"gen_pass_confirm", None>>}

OutsiderStart == StartHandler(Outsider)

OutsiderCommand == \E command \in AdminCommands : CommandHandler(Outsider, command)

OutsiderText ==
    \E text \in TextInputs(Outsider) \cup {"18:30"} : MessageHandler(Outsider, text)

OutsiderWalk == \E r \in Outcomes : CallbackHandler(Outsider, "task", r, {})

OutsiderPress ==
    \E b \in OutsiderButtons :
        \/ AdminCallbackHandler(Outsider, b[1], b[2], "Xk3!generated")
        \/ CallbackHandler(Outsider, b[1], b[2], {})

OutsiderRegistered ==
    \/ AdminCallbackHandler(Editor, "add_user_by_id", None, None)
    \/ /\ fsm_state[Editor] = "ADD_USER_BY_ID"
       /\ \E text \in TextInputs(Editor) : MessageHandler(Editor, text)

OutsiderNext ==
    \/ OutsiderStart \/ OutsiderCommand \/ OutsiderText \/ OutsiderWalk
    \/ OutsiderPress \/ OutsiderRegistered

SpecOutsider == OutsiderInit /\ [][OutsiderNext]_vars

====
